---- MODULE Spec2Model ----
(***************************************************************************)
(* State-machine model of the Udupi POS application: the order state      *)
(* manager (hooks/usePOSData.ts), the bill number service                 *)
(* (services/billNumberService.ts), the persistence adapter               *)
(* (services/supabase.ts) and the amount-in-words formatter.              *)
(*                                                                         *)
(* Money is held in hundredths of a rupee (value * Percent), so that the  *)
(* service charge subtotal * percent / 100 of the code, a JavaScript      *)
(* number that may carry a fraction, is exact integer arithmetic here.    *)
(***************************************************************************)
EXTENDS Integers, Sequences, FiniteSets, TLC

VARIABLES
    tables,         \* useState<Table[]>: table number -> [status, currentOrder]
    orders,         \* useState<Order[]>: the orders list
    currentOrder,   \* useState<Order | null>
    completing,     \* the completeOrder call in flight (its closure), or Idle
    printing,       \* the handlePrint call in flight (its closure), or Idle
    now,            \* Date.now(): source of order ids and timestamps
    renders,        \* the performPrint calls made so far, in order
    printTimers,    \* pending setTimeout callbacks of handlePrint('both')
    lastOp,         \* history: the last operation of the hook that ran
    prevOp,         \* history: the operation before lastOp
    date,           \* the calendar date of new Date()
    remoteCounter,  \* daily_bill_counters: date -> last_bill_number
    ls,             \* localStorage of each session: billDate, billCounter
    bn,             \* the getNextBillNumber call of each session
    issued,         \* history: bill numbers a session was given, with their date
    remoteStore,    \* remote tables: table name -> list of records
    localStore,     \* localStorage fallback lists: table name -> list
    storeResult,    \* history: what the last adapter call returned
    amount,         \* the argument given to getAmountInWords
    words,          \* the string getAmountInWords returned for it
    menuItems,      \* useState<MenuItem[]>: the menu
    errorMessage,   \* useState<string | null>: the error shown to the user
    clearing,       \* the clearAllOrders call in flight (its closure), or Idle
    resetting,      \* per session: the resetBillCounter call in flight, or Idle
    supabase,       \* per session: is the supabase client configured (not null)
    procedure,      \* is increment_bill_counter installed in the database
    content,        \* the content generatePrintContent produced last
    midnight,       \* the automatic midnight clear: the effect and its timers
    completing2     \* a second completeOrder call in flight (its closure), or Idle

posVars   == <<tables, orders, currentOrder, completing, printing, now,
               renders, printTimers>>
histVars  == <<lastOp, prevOp>>
billVars  == <<date, remoteCounter, ls, bn, issued>>
storeVars == <<remoteStore, localStore, storeResult>>
wordVars  == <<amount, words>>
adminVars == <<menuItems, errorMessage, clearing, resetting, supabase, procedure,
               content, midnight, completing2>>
vars      == <<posVars, histVars, billVars, storeVars, wordVars, adminVars>>

----------------------------------------------------------------------------
(* Bounds of the model *)

MaxQty  == 2        \* largest quantity of one order line
MaxNow  == 2        \* order ids / timestamps handed out in one run
MaxBill == 3        \* getNextBillNumber calls completed in one run
MaxDate == 2        \* calendar dates a run passes through
MaxRecs == 2        \* records written through the persistence adapter
MaxAmount == 1001   \* largest amount given to getAmountInWords
MaxList == 3        \* orders in the list when a past order is printed again
MaxRenders == 2     \* performPrint calls made or scheduled in one run

(* Program constants *)

Percent == 100              \* the divisor of subtotal * percent / 100
DefaultParcelCharge == 5    \* parcelCharge set when a line becomes a parcel
PadWidth == 3
MaxPrice == 100000000       \* addMenuItem: prices from here on are refused               \* padStart(3, '0')

TableNums == {1, 2}         \* two of the 14 tables
EditTables == {1}           \* the table whose order SpecEdit edits
MenuItems == { [id |-> "idly", name |-> "Idly", price |-> 20],
               [id |-> "vada", name |-> "Vada", price |-> 25] }
ServiceChargeOptions == {0, 10}     \* two of the options 0, 5, 10, 15
ParcelChargeOptions  == {5, 10}     \* two of the options 5, 10, 15, 20

Sessions == {1, 2}          \* browser sessions, each with its own localStorage
NoDate  == 0                \* localStorage.getItem('billDate') === null
TableNames == {"menu_items", "completed_orders"}
NoId    == ""               \* a record given without an id
NoOrder == [id |-> 0]       \* null / undefined
NoBill  == ""               \* billNumber undefined
Idle    == [pc |-> "idle"]
NoMessage == ""
NoContent == [type |-> "none"]     \* nothing generated yet             \* errorMessage null

----------------------------------------------------------------------------
(* Helpers on sequences *)

RECURSIVE SumSeq(_)
SumSeq(s) == IF s = <<>> THEN 0 ELSE Head(s) + SumSeq(Tail(s))

Map(f(_), s) == [i \in 1..Len(s) |-> f(s[i])]

Filter(p(_), s) == SelectSeq(s, p)

\* Array.prototype.findIndex: the first index whose element satisfies p, 0 if none
FindIndex(p(_), s) ==
    IF \E i \in 1..Len(s) : p(s[i])
    THEN CHOOSE i \in 1..Len(s) : p(s[i]) /\ \A j \in 1..(i-1) : ~p(s[j])
    ELSE 0

----------------------------------------------------------------------------
(* Order arithmetic *)

calculateOrderTotals(items, serviceChargePercent) ==
    LET lineAmount(item) == item.price * item.quantity
        lineParcel(item) == IF item.isParcel THEN item.parcelCharge ELSE 0
        subtotal      == SumSeq(Map(lineAmount, items))
        parcelCharges == SumSeq(Map(lineParcel, items))
        \* subtotal * serviceChargePercent / 100, in hundredths
        serviceChargeAmount == subtotal * serviceChargePercent
    IN  [subtotal      |-> subtotal * Percent,
         parcelCharges |-> parcelCharges * Percent,
         total         |-> subtotal * Percent + parcelCharges * Percent
                           + serviceChargeAmount]

NewOrder(id, tableNumber) ==
    [id |-> id, tableNumber |-> tableNumber, items |-> <<>>,
     serviceCharge |-> 0, parcelCharges |-> 0, subtotal |-> 0, total |-> 0,
     timestamp |-> id, status |-> "active",
     kotPrinted |-> FALSE, customerBillPrinted |-> FALSE, billNumber |-> NoBill]

WithTotals(order, items, serviceCharge) ==
    LET t == calculateOrderTotals(items, serviceCharge)
    IN  [order EXCEPT !.items = items, !.serviceCharge = serviceCharge,
                      !.subtotal = t.subtotal,
                      !.parcelCharges = t.parcelCharges,
                      !.total = t.total]

HasItem(items, itemId) == \E i \in 1..Len(items) : items[i].id = itemId

\* the effect on [currentOrder]: the table of the current order follows it
TableStatusEffect(tbls, cur) ==
    IF cur = NoOrder THEN tbls
    ELSE [tbls EXCEPT ![cur.tableNumber] =
            IF Len(cur.items) = 0
            THEN [status |-> "available", currentOrder |-> NoOrder]
            ELSE [status |-> "occupied", currentOrder |-> cur]]

----------------------------------------------------------------------------
(* The initial state *)

InitPos ==
    /\ tables = [t \in TableNums |-> [status |-> "available", currentOrder |-> NoOrder]]
    /\ orders = <<>>
    /\ currentOrder = NoOrder
    /\ completing = Idle
    /\ printing = Idle
    /\ now = 1
    /\ renders = <<>>
    /\ printTimers = <<>>

NoOp == [op |-> "none"]

InitHist == lastOp = NoOp /\ prevOp = NoOp

----------------------------------------------------------------------------
(* Order State Manager: the synchronous handlers.  Each sets the state the *)
(* handler sets and then runs the effect on [currentOrder].                *)

Commit(newCurrent, newOrders, newTables) ==
    /\ currentOrder' = newCurrent
    /\ orders' = newOrders
    /\ tables' = TableStatusEffect(newTables, newCurrent)

selectTable(tableNumber) ==
    LET isActiveHere(order) == order.tableNumber = tableNumber /\ order.status = "active"
        k == FindIndex(isActiveHere, orders)
    IN  /\ tableNumber \in TableNums
        /\ IF k > 0
           THEN /\ Commit(orders[k], orders, tables)
                /\ UNCHANGED now
           ELSE IF tables[tableNumber].currentOrder # NoOrder
           THEN /\ Commit(tables[tableNumber].currentOrder, orders, tables)
                /\ UNCHANGED now
           ELSE /\ now <= MaxNow
                /\ Commit(NewOrder(now, tableNumber), orders,
                          [tables EXCEPT ![tableNumber].status = "occupied"])
                /\ now' = now + 1
        /\ UNCHANGED <<completing, printing, renders, printTimers>>

\* a variant that appends a line whether or not the item is present
addItemToOrderItemsAppend(items, menuItem) ==
    Append(items, [id |-> menuItem.id, name |-> menuItem.name,
                   price |-> menuItem.price, quantity |-> 1,
                   isParcel |-> FALSE, parcelCharge |-> 0])

addItemToOrderItems(items, menuItem) ==
    IF HasItem(items, menuItem.id)
    THEN [i \in 1..Len(items) |->
            IF items[i].id = menuItem.id
            THEN [items[i] EXCEPT !.quantity = @ + 1]
            ELSE items[i]]
    ELSE Append(items, [id |-> menuItem.id, name |-> menuItem.name,
                        price |-> menuItem.price, quantity |-> 1,
                        isParcel |-> FALSE, parcelCharge |-> 0])

addItemToOrder(menuItem) ==
    /\ currentOrder # NoOrder
    /\ \A i \in 1..Len(currentOrder.items) :
          currentOrder.items[i].id = menuItem.id => currentOrder.items[i].quantity < MaxQty
    /\ Commit(WithTotals(currentOrder,
                         addItemToOrderItems(currentOrder.items, menuItem),
                         currentOrder.serviceCharge),
              orders, tables)
    /\ UNCHANGED <<completing, printing, now, renders, printTimers>>

updateItemQuantityItems(items, itemId, quantity) ==
    IF quantity = 0
    THEN LET keep(item) == item.id # itemId IN Filter(keep, items)
    ELSE [i \in 1..Len(items) |->
            IF items[i].id = itemId
            THEN [items[i] EXCEPT !.quantity = quantity]
            ELSE items[i]]

\* a variant that leaves the emptied order in the list
updateItemQuantityOrdersKeep(list, updatedItems, orderId) == list

updateItemQuantityOrders(list, updatedItems, orderId) ==
    IF Len(updatedItems) = 0
    THEN LET keep(order) == order.id # orderId IN Filter(keep, list)
    ELSE list

updateItemQuantity(itemId, quantity) ==
    /\ currentOrder # NoOrder
    /\ LET updatedItems == updateItemQuantityItems(currentOrder.items, itemId, quantity)
       IN  Commit(WithTotals(currentOrder, updatedItems, currentOrder.serviceCharge),
                  updateItemQuantityOrders(orders, updatedItems, currentOrder.id),
                  tables)
    /\ UNCHANGED <<completing, printing, now, renders, printTimers>>

removeItem(itemId) == updateItemQuantity(itemId, 0)

\* a variant that restores the charge the line carried when it is made a
\* parcel line again
toggleItemParcelItemsKeepCharge(items, itemId) ==
    [i \in 1..Len(items) |->
        IF items[i].id = itemId
        THEN [items[i] EXCEPT
                !.isParcel = ~items[i].isParcel,
                !.parcelCharge = IF items[i].parcelCharge > 0
                                 THEN items[i].parcelCharge
                                 ELSE DefaultParcelCharge]
        ELSE items[i]]

\* a variant that flips every line of the order
toggleItemParcelItemsAll(items, itemId) ==
    [i \in 1..Len(items) |->
        [items[i] EXCEPT
            !.isParcel = ~items[i].isParcel,
            !.parcelCharge = IF ~items[i].isParcel THEN DefaultParcelCharge ELSE 0]]

toggleItemParcelItems(items, itemId) ==
    [i \in 1..Len(items) |->
        IF items[i].id = itemId
        THEN [items[i] EXCEPT
                !.isParcel = ~items[i].isParcel,
                !.parcelCharge = IF ~items[i].isParcel THEN DefaultParcelCharge ELSE 0]
        ELSE items[i]]

toggleItemParcel(itemId) ==
    /\ currentOrder # NoOrder
    /\ Commit([currentOrder EXCEPT
                 !.items = toggleItemParcelItems(currentOrder.items, itemId)],
              orders, tables)
    /\ UNCHANGED <<completing, printing, now, renders, printTimers>>

updateItemParcelChargeItems(items, itemId, parcelCharge) ==
    [i \in 1..Len(items) |->
        IF items[i].id = itemId
        THEN [items[i] EXCEPT !.parcelCharge = parcelCharge]
        ELSE items[i]]

updateItemParcelCharge(itemId, parcelCharge) ==
    /\ currentOrder # NoOrder
    /\ Commit(WithTotals(currentOrder,
                         updateItemParcelChargeItems(currentOrder.items, itemId, parcelCharge),
                         currentOrder.serviceCharge),
              orders, tables)
    /\ UNCHANGED <<completing, printing, now, renders, printTimers>>

updateServiceCharge(serviceCharge) ==
    /\ currentOrder # NoOrder
    /\ Commit(WithTotals(currentOrder, currentOrder.items, serviceCharge),
              orders, tables)
    /\ UNCHANGED <<completing, printing, now, renders, printTimers>>

----------------------------------------------------------------------------
(* Bill Number Service *)

\* String.prototype.padStart(width, ch)
RECURSIVE padStart(_, _, _)
padStart(str, width, ch) ==
    IF Len(str) >= width THEN str ELSE padStart(ch \o str, width, ch)

\* billNumber.toString().padStart(3, '0')
formatBillNumber(billNumber) == padStart(ToString(billNumber), PadWidth, "0")

\* the stored procedure increment_bill_counter(date_param): the new counters
\* and the number returned
increment_bill_counter(counter, date_param) ==
    [counter |-> [counter EXCEPT ![date_param] = @ + 1],
     data    |-> counter[date_param] + 1]

\* a variant that counts on without comparing the stored date
getNextBillNumberFromLocalStorageNoReset(store, today) ==
    [store |-> [billDate |-> today, billCounter |-> store.billCounter + 1],
     data  |-> store.billCounter + 1]

\* getNextBillNumberFromLocalStorage(today): the new localStorage and the number
getNextBillNumberFromLocalStorage(store, today) ==
    LET billCounter == IF store.billDate # today THEN 1 ELSE store.billCounter + 1
    IN  [store |-> [billDate |-> today, billCounter |-> billCounter],
         data  |-> billCounter]

saveBillDataToLocalStorage(today, billNumber) ==
    [billDate |-> today, billCounter |-> billNumber]

\* the calls of a session made so far
Calls(s) == Len(issued[s]) + (IF bn[s].pc = "idle" THEN 0 ELSE 1)

\* getNextBillNumber returns: the number is handed to the caller
Return(s, today, billNumber, via) ==
    /\ issued' = [issued EXCEPT ![s] =
                    Append(@, [today |-> today,
                               bill  |-> formatBillNumber(billNumber),
                               via   |-> via])]
    /\ bn' = [bn EXCEPT ![s] = Idle]

\* getNextBillNumber(): today is read, the stored procedure is called
GetNextBillNumber(s) ==
    /\ bn[s].pc = "idle"
    /\ Calls(s) < MaxBill
    /\ bn' = [bn EXCEPT ![s] = [pc |-> "rpc", today |-> date]]
    /\ UNCHANGED <<date, remoteCounter, ls, issued>>

\* supabase is null: getNextBillNumberFromSupabase throws, the fallback runs
NotConfigured(s) ==
    /\ bn[s].pc = "rpc"
    /\ LET r == getNextBillNumberFromLocalStorage(ls[s], bn[s].today)
       IN  /\ ls' = [ls EXCEPT ![s] = r.store]
           /\ Return(s, bn[s].today, r.data, "local")
    /\ UNCHANGED <<date, remoteCounter>>

\* the stored procedure answers: the number is mirrored and returned
RpcOk(s) ==
    /\ bn[s].pc = "rpc"
    /\ LET r == increment_bill_counter(remoteCounter, bn[s].today)
       IN  /\ remoteCounter' = r.counter
           /\ ls' = [ls EXCEPT ![s] = saveBillDataToLocalStorage(bn[s].today, r.data)]
           /\ Return(s, bn[s].today, r.data, "rpc")
    /\ UNCHANGED date

\* the stored procedure fails or is absent: getNextBillNumberFromTable starts
RpcError(s) ==
    /\ bn[s].pc = "rpc"
    /\ bn' = [bn EXCEPT ![s] = [pc |-> "select", today |-> bn[s].today]]
    /\ UNCHANGED <<date, remoteCounter, ls, issued>>

\* select last_bill_number where date = today: a row, no row, or an error
SelectRow(s, failed) ==
    /\ bn[s].pc = "select"
    /\ LET nextNumber == IF failed THEN 1 ELSE remoteCounter[bn[s].today] + 1
       IN  bn' = [bn EXCEPT ![s] = [pc |-> "upsert", today |-> bn[s].today,
                                    nextNumber |-> nextNumber]]
    /\ UNCHANGED <<date, remoteCounter, ls, issued>>

\* the upsert of nextNumber succeeds: mirrored and returned
UpsertOk(s) ==
    /\ bn[s].pc = "upsert"
    /\ remoteCounter' = [remoteCounter EXCEPT ![bn[s].today] = bn[s].nextNumber]
    /\ ls' = [ls EXCEPT ![s] = saveBillDataToLocalStorage(bn[s].today, bn[s].nextNumber)]
    /\ Return(s, bn[s].today, bn[s].nextNumber, "table")
    /\ UNCHANGED date

\* the upsert fails: getNextBillNumber catches and uses localStorage
UpsertError(s) ==
    /\ bn[s].pc = "upsert"
    /\ LET r == getNextBillNumberFromLocalStorage(ls[s], bn[s].today)
       IN  /\ ls' = [ls EXCEPT ![s] = r.store]
           /\ Return(s, bn[s].today, r.data, "local")
    /\ UNCHANGED <<date, remoteCounter>>

\* getCurrentBillCounter's localStorage branch: the counter localStorage
\* holds for a date
localBillCounter(store, today) ==
    IF store.billDate = today THEN store.billCounter ELSE 0

\* resetBillCounter, after the remote call: localStorage is reset if the
\* date reset is today
resetBillCounterLocal(store, targetDate, today) ==
    IF targetDate = today THEN [billDate |-> today, billCounter |-> 0] ELSE store

\* resetBillCounter(date): with supabase null nothing is awaited and the
\* call ends here, else the upsert of last_bill_number 0 is sent
resetBillCounter(s, targetDate) ==
    /\ resetting[s].pc = "idle"
    /\ IF supabase[s]
       THEN /\ resetting' = [resetting EXCEPT ![s] =
                                [pc |-> "upsert", targetDate |-> targetDate]]
            /\ UNCHANGED ls
       ELSE /\ ls' = [ls EXCEPT ![s] = resetBillCounterLocal(@, targetDate, date)]
            /\ UNCHANGED resetting
    /\ UNCHANGED <<date, remoteCounter, bn, issued>>

\* the upsert answers; the error it may report is not looked at
resetBillCounterUpsert(s, failed) ==
    /\ resetting[s].pc = "upsert"
    /\ remoteCounter' = IF failed THEN remoteCounter
                        ELSE [remoteCounter EXCEPT ![resetting[s].targetDate] = 0]
    /\ ls' = [ls EXCEPT ![s] = resetBillCounterLocal(@, resetting[s].targetDate, date)]
    /\ resetting' = [resetting EXCEPT ![s] = Idle]
    /\ UNCHANGED <<date, bn, issued>>

\* midnight passes
DateAdvance ==
    /\ date < MaxDate
    /\ date' = date + 1
    /\ UNCHANGED <<remoteCounter, ls, bn, issued>>

----------------------------------------------------------------------------
(* Persistence Adapter.  Each operation is given the outcome of its remote *)
(* call: failed is TRUE when supabase is null or the request reports an    *)
(* error, which the try block throws and the catch block handles.  The     *)
(* result holds the stores afterwards, the value returned to the caller    *)
(* and whether an error left the function.                                 *)

NoRec == [id |-> NoId]      \* undefined

\* { ...item, ...updates }
Merge(item, updates) ==
    [f \in (DOMAIN item) \cup (DOMAIN updates) |->
        IF f \in DOMAIN updates THEN updates[f] ELSE item[f]]

Find(p(_), list) ==
    IF FindIndex(p, list) = 0 THEN NoRec ELSE list[FindIndex(p, list)]

Outcome(remote, local, value) ==
    [remote |-> remote, local |-> local, value |-> value, threw |-> FALSE]

\* data.id || Date.now().toString()
WithId(data, clock) == IF data.id = NoId THEN [data EXCEPT !.id = ToString(clock)] ELSE data

safeWrite(remote, local, table, data, failed, clock) ==
    IF ~failed
    THEN \* insert([data]).select(): the stored row is returned
         Outcome([remote EXCEPT ![table] = Append(@, WithId(data, clock))], local,
                 WithId(data, clock))
    ELSE Outcome(remote, [local EXCEPT ![table] = Append(@, WithId(data, clock))],
                 WithId(data, clock))

\* a variant without the catch block: the error of the request leaves the function
safeReadNoCatch(remote, local, table, failed) ==
    IF ~failed
    THEN Outcome(remote, local, remote[table])
    ELSE [Outcome(remote, local, <<>>) EXCEPT !.threw = TRUE]

safeRead(remote, local, table, failed) ==
    IF ~failed
    THEN Outcome(remote, local, remote[table])
    ELSE Outcome(remote, local, local[table])

safeUpdate(remote, local, table, id, updates, failed) ==
    LET hasId(item) == item.id = id
        patch(item) == IF item.id = id THEN Merge(item, updates) ELSE item
    IN  IF ~failed
        THEN Outcome([remote EXCEPT ![table] = Map(patch, @)], local,
                     Find(hasId, Map(patch, remote[table])))
        ELSE Outcome(remote, [local EXCEPT ![table] = Map(patch, @)],
                     Find(hasId, Map(patch, local[table])))

safeDelete(remote, local, table, id, failed) ==
    LET keep(item) == item.id # id
    IN  IF ~failed
        THEN Outcome([remote EXCEPT ![table] = Filter(keep, @)], local, TRUE)
        ELSE Outcome(remote, [local EXCEPT ![table] = Filter(keep, @)], TRUE)

\* the adapter call `call` ends with outcome r
StoreStep(call, r) ==
    /\ remoteStore' = r.remote
    /\ localStore' = r.local
    /\ storeResult' = [call EXCEPT !.threw = r.threw, !.value = r.value]

StoreCall(op, table, id, arg, failed) ==
    [op |-> op, table |-> table, id |-> id, arg |-> arg, failed |-> failed,
     before |-> localStore[table], threw |-> FALSE, value |-> NoRec]

----------------------------------------------------------------------------
(* Order State Manager: saveOrder, backToTables and the asynchronous       *)
(* handlers.  An asynchronous handler keeps the currentOrder, orders and   *)
(* tables of the render it was called in (its closure) across its awaits.  *)

\* replace the order of the same id, or append
\* a variant that appends the order whether or not the list holds its id
UpsertAppend(list, order) == Append(list, order)

Upsert(list, order) ==
    LET sameId(o) == o.id = order.id
        k == FindIndex(sameId, list)
    IN  IF k > 0 THEN [list EXCEPT ![k] = order] ELSE Append(list, order)

\* a variant that appends the order whether or not the list holds it
saveOrderOrdersAppend(cur, list) == Append(list, cur)

saveOrderOrders(cur, list) == Upsert(list, cur)

saveOrderTables(cur, tbls) ==
    [tbls EXCEPT ![cur.tableNumber] = [status |-> "occupied", currentOrder |-> cur]]

saveOrder ==
    /\ currentOrder # NoOrder
    /\ Len(currentOrder.items) > 0
    /\ Commit(currentOrder, saveOrderOrders(currentOrder, orders),
              saveOrderTables(currentOrder, tables))
    /\ UNCHANGED <<completing, printing, now, renders, printTimers>>

backToTables ==
    /\ IF currentOrder = NoOrder
       THEN UNCHANGED <<orders, tables>>
       ELSE IF Len(currentOrder.items) > 0
       THEN /\ orders' = saveOrderOrders(currentOrder, orders)
            /\ tables' = saveOrderTables(currentOrder, tables)
       ELSE LET keep(order) == order.id # currentOrder.id
            IN  /\ orders' = Filter(keep, orders)
                /\ tables' = [tables EXCEPT ![currentOrder.tableNumber] =
                                [status |-> "available", currentOrder |-> NoOrder]]
    /\ currentOrder' = NoOrder
    /\ UNCHANGED <<completing, printing, now, renders, printTimers>>

\* one whole getNextBillNumber call of session s on date today: every way it
\* can end, as the stores it leaves and the number it returns
BillResults(counter, store, today) ==
    LET rpc   == increment_bill_counter(counter, today)
        local == getNextBillNumberFromLocalStorage(store, today)
        viaTable(n) == [counter |-> [counter EXCEPT ![today] = n],
                        store |-> saveBillDataToLocalStorage(today, n),
                        data |-> n, via |-> "table"]
    IN  { [counter |-> rpc.counter,
           store |-> saveBillDataToLocalStorage(today, rpc.data),
           data |-> rpc.data, via |-> "rpc"],
          viaTable(counter[today] + 1),
          viaTable(1),
          [counter |-> counter, store |-> local.store,
           data |-> local.data, via |-> "local"] }

\* the awaited getNextBillNumber of a handler of session 1 resolves
BillResolves(r) ==
    /\ remoteCounter' = r.counter
    /\ ls' = [ls EXCEPT ![1] = r.store]
    /\ UNCHANGED <<date, bn, issued>>

\* the record completeOrder writes to completed_orders
supabaseOrder(completedOrder) ==
    LET line(item) == [name |-> item.name, quantity |-> item.quantity,
                       price |-> item.price, isParcel |-> item.isParcel]
    IN  [id |-> ToString(completedOrder.id),    \* ids are strings made of Date.now()
         table_number |-> completedOrder.tableNumber,
         items |-> Map(line, completedOrder.items),
         service_charge |-> completedOrder.serviceCharge,
         subtotal |-> completedOrder.subtotal,
         total |-> completedOrder.total,
         status |-> completedOrder.status,
         kot_printed |-> completedOrder.kotPrinted,
         customer_bill_printed |-> completedOrder.customerBillPrinted,
         timestamp |-> completedOrder.timestamp,
         restaurant_id |-> "default-restaurant",
         bill_number |-> completedOrder.billNumber]

\* completeOrder is called: it awaits getNextBillNumber
completeOrderStart ==
    /\ completing = Idle
    /\ currentOrder # NoOrder
    /\ now <= MaxNow
    /\ completing' = [pc |-> "bill", currentOrder |-> currentOrder,
                      orders |-> orders, tables |-> tables]
    /\ UNCHANGED <<tables, orders, currentOrder, printing, now, renders, printTimers>>

\* the bill number arrives: completeOrder awaits safeWrite
completeOrderBill(r) ==
    /\ completing.pc = "bill"
    /\ BillResolves(r)
    /\ completing' = [completing EXCEPT !.pc = "write",
                                        !.currentOrder.status = "completed",
                                        !.currentOrder.billNumber = formatBillNumber(r.data)]
    /\ UNCHANGED <<tables, orders, currentOrder, printing, now, renders, printTimers>>

\* a variant that appends without looking for the order in the list
completeOrderOrdersAppend(list, completedOrder) == Append(list, completedOrder)

completeOrderOrders(list, completedOrder) == Upsert(list, completedOrder)

\* safeWrite returns (or throws, which is caught and logged): the order is
\* put in the list and a fresh order takes its place
completeOrderFinish(failed) ==
    /\ completing.pc = "write"
    /\ LET completedOrder == completing.currentOrder
           w == safeWrite(remoteStore, localStore, "completed_orders",
                          supabaseOrder(completedOrder), failed, now)
           freshOrder == NewOrder(now, completedOrder.tableNumber)
       IN  /\ remoteStore' = w.remote
           /\ localStore' = w.local
           /\ Commit(freshOrder,
                     completeOrderOrders(completing.orders, completedOrder),
                     [completing.tables EXCEPT ![completedOrder.tableNumber] =
                         [status |-> "occupied", currentOrder |-> freshOrder]])
    /\ now' = now + 1
    /\ completing' = Idle
    /\ UNCHANGED <<printing, renders, printTimers, storeResult>>

\* the print buttons are rendered (App.tsx renderHeader)
hasRecentCompletedOrder ==
    /\ currentOrder # NoOrder
    /\ \E i \in 1..Len(orders) :
          /\ orders[i].tableNumber = currentOrder.tableNumber
          /\ orders[i].status = "completed"
          /\ orders[i].billNumber # NoBill

PrintButtonsShown ==
    /\ currentOrder # NoOrder
    /\ (Len(currentOrder.items) > 0 \/ hasRecentCompletedOrder)

\* a variant that takes the first completed order of the table in the list
orderToPrintFirst(cur, list) ==
    LET ok(o) == /\ o.tableNumber = cur.tableNumber
                 /\ o.status = "completed"
                 /\ o.billNumber # NoBill
        completedOrders == Filter(ok, list)
    IN  IF Len(cur.items) = 0 /\ Len(completedOrders) > 0
        THEN completedOrders[1]
        ELSE cur

\* the order handlePrint prints for the current order cur: cur itself, or,
\* when cur is empty, the completed order of its table with a bill number
\* that sorts first by descending timestamp (the sort is stable)
orderToPrint(cur, list) ==
    LET ok(o) == /\ o.tableNumber = cur.tableNumber
                 /\ o.status = "completed"
                 /\ o.billNumber # NoBill
        completedOrders == Filter(ok, list)
        first == CHOOSE i \in 1..Len(completedOrders) :
                    \A j \in 1..Len(completedOrders) :
                        \/ completedOrders[j].timestamp < completedOrders[i].timestamp
                        \/ (completedOrders[j].timestamp = completedOrders[i].timestamp /\ i <= j)
    IN  IF Len(cur.items) = 0 /\ Len(completedOrders) > 0
        THEN completedOrders[first]
        ELSE cur

\* the handlePrint calls made so far
PrintCalls ==
    LET seen == {renders[i].call : i \in 1..Len(renders)}
                \cup {printTimers[i].call : i \in 1..Len(printTimers)}
    IN  IF seen = {} THEN 0 ELSE CHOOSE k \in seen : \A j \in seen : j <= k

\* performPrint(order, type), as call number call of handlePrint(mode)
Render(call, mode, order, type) ==
    [call |-> call, mode |-> mode, type |-> type, order |-> order.id,
     bill |-> order.billNumber]

\* a variant that marks only the document rendered at once
withPrintStatusRendered(order, type) ==
    [order EXCEPT
        !.kotPrinted = IF type \in {"kot", "both"} THEN TRUE ELSE @,
        !.customerBillPrinted = IF type = "customer" THEN TRUE ELSE @]

\* the order with the print status of a handlePrint(type)
withPrintStatus(order, type) ==
    [order EXCEPT
        !.kotPrinted = IF type \in {"kot", "both"} THEN TRUE ELSE @,
        !.customerBillPrinted = IF type \in {"customer", "both"} THEN TRUE ELSE @]

\* handlePrint from the choice of the order to print on: cur, list and tbls
\* are the handler's currentOrder (with the bill number it may have been
\* given), orders and tables
handlePrintRest(type, cur, list, tbls) ==
    LET toPrint == orderToPrint(cur, list)
        call == PrintCalls + 1
        updatedOrder == withPrintStatus(cur, type)
    IN  /\ IF type = "both"
           THEN /\ renders' = Append(renders, Render(call, type, toPrint, "kot"))
                /\ printTimers' = Append(printTimers, Render(call, type, toPrint, "customer"))
           ELSE /\ renders' = Append(renders, Render(call, type, toPrint, type))
                /\ UNCHANGED printTimers
        /\ IF toPrint.id = cur.id
           THEN Commit(updatedOrder, Upsert(list, updatedOrder),
                       [tbls EXCEPT ![updatedOrder.tableNumber] =
                           [status |-> "occupied", currentOrder |-> updatedOrder]])
           ELSE UNCHANGED <<currentOrder, orders, tables>>

\* handlePrint(type) is called: it awaits a bill number when the current
\* order has items and no number yet, and runs to its end otherwise
handlePrintStart(type) ==
    /\ printing = Idle
    /\ currentOrder # NoOrder
    /\ Len(renders) + Len(printTimers) + (IF type = "both" THEN 2 ELSE 1) <= MaxRenders
    /\ IF Len(currentOrder.items) > 0 /\ currentOrder.billNumber = NoBill
       THEN /\ printing' = [pc |-> "bill", type |-> type, currentOrder |-> currentOrder,
                            orders |-> orders, tables |-> tables]
            /\ UNCHANGED <<tables, orders, currentOrder, renders, printTimers>>
       ELSE /\ handlePrintRest(type, currentOrder, orders, tables)
            /\ UNCHANGED printing
    /\ UNCHANGED <<completing, now>>

\* the bill number arrives: it is put on the handler's order, which has
\* items and so is the order printed; the currentOrder, orders and tables set
\* with the bill number are set again, from the same closure, with the print
\* status, and the later values are the ones committed
handlePrintBill(r) ==
    /\ printing.pc = "bill"
    /\ BillResolves(r)
    /\ LET updatedOrder == [printing.currentOrder EXCEPT
                               !.billNumber = formatBillNumber(r.data)]
       IN  handlePrintRest(printing.type, updatedOrder, printing.orders,
                           [printing.tables EXCEPT ![updatedOrder.tableNumber].currentOrder =
                               updatedOrder])
    /\ printing' = Idle
    /\ UNCHANGED <<completing, now>>

\* the timer of handlePrint('both') fires: the customer bill is rendered
printTimerFires ==
    /\ printTimers # <<>>
    /\ renders' = Append(renders, Head(printTimers))
    /\ printTimers' = Tail(printTimers)
    /\ UNCHANGED <<tables, orders, currentOrder, completing, printing, now>>

----------------------------------------------------------------------------
(* History of operations, kept for stating the properties *)

NoLine == [id |-> "", quantity |-> 0, isParcel |-> FALSE, parcelCharge |-> 0]

LineOf(order, itemId) ==
    IF order # NoOrder /\ HasItem(order.items, itemId)
    THEN LET k == CHOOSE i \in 1..Len(order.items) : order.items[i].id = itemId
         IN  order.items[k]
    ELSE NoLine

ItemIds(order) ==
    IF order = NoOrder THEN {} ELSE {order.items[i].id : i \in 1..Len(order.items)}

\* an operation on a line, with the state of the line before it
LineOp(name, itemId) ==
    [op |-> name, item |-> itemId,
     wasParcel |-> LineOf(currentOrder, itemId).isParcel,
     wasCharge |-> LineOf(currentOrder, itemId).parcelCharge]

\* prevOp is kept across two operations on lines only
Log2(op) == lastOp' = op /\ prevOp' = lastOp

Log1(op) == lastOp' = op /\ prevOp' = NoOp

----------------------------------------------------------------------------
(* Specification of order editing: one user selecting tables and editing  *)
(* the current order.                                                      *)

InitBill ==
    /\ date = 1
    /\ remoteCounter = [d \in 1..MaxDate |-> 0]
    /\ ls = [s \in Sessions |-> [billDate |-> NoDate, billCounter |-> 0]]
    /\ bn = [s \in Sessions |-> Idle]
    /\ issued = [s \in Sessions |-> <<>>]

----------------------------------------------------------------------------
(* The automatic midnight clear: an effect of the first render schedules  *)
(* a timer for the coming midnight; its callback calls clearAllOrders and *)
(* schedules the next one. midnight holds mounted (is the hook mounted),  *)
(* pending (the ids of the timers not yet fired or cleared), nextId (the  *)
(* id setTimeout gives next), timeoutId (the id the cleanup of the effect *)
(* holds), invoked (how often a timer has called clearAllOrders) and      *)
(* invokedAtUnmount (that count when the cleanup ran).                    *)

\* setTimeout(callback, delay): a new pending timer, whose id is returned
setTimeout(m) == [m EXCEPT !.pending = @ \cup {m.nextId}, !.nextId = @ + 1]

\* clearTimeout(id): that timer, if pending, will not fire
clearTimeout(m, id) == [m EXCEPT !.pending = @ \ {id}]

\* scheduleAutoClear never schedules anything
scheduleAutoClearNone(m) == m

\* scheduleAutoClear(): one timer for the coming midnight
scheduleAutoClear(m) == setTimeout(m)

\* the callback schedules two timers
timerCallbackTwice(m, id) ==
    scheduleAutoClear(scheduleAutoClear([m EXCEPT !.pending = @ \ {id},
                                                  !.invoked = @ + 1]))

\* the callback of timer id: clearAllOrders() is called (its effect on the
\* rest of the state is stated by the action), then scheduleAutoClear(),
\* whose returned id is dropped
timerCallback(m, id) ==
    scheduleAutoClear([m EXCEPT !.pending = @ \ {id}, !.invoked = @ + 1])

\* the effect as it ran after the first render: the id of the first timer
\* is kept for the cleanup
useEffectMidnight ==
    LET m == [mounted |-> TRUE, pending |-> {}, nextId |-> 1, timeoutId |-> 1,
              invoked |-> 0, invokedAtUnmount |-> 0]
    IN  [scheduleAutoClear(m) EXCEPT !.timeoutId = m.nextId]

\* the cleanup of the effect at unmount: clearTimeout(timeoutId)
useEffectMidnightCleanup(m) ==
    [clearTimeout(m, m.timeoutId) EXCEPT !.mounted = FALSE,
                                         !.invokedAtUnmount = m.invoked]

InitRest ==
    /\ InitBill
    /\ remoteStore = [t \in TableNames |-> <<>>]
    /\ localStore = [t \in TableNames |-> <<>>]
    /\ storeResult = NoOp
    /\ amount = 0
    /\ words = ""
    /\ menuItems = <<>>
    /\ errorMessage = NoMessage
    /\ clearing = Idle
    /\ resetting = [s \in Sessions |-> Idle]
    /\ content = NoContent
    /\ midnight = useEffectMidnight
    /\ completing2 = Idle

\* the client is built from the environment when the module loads
InitSupabase == supabase = [s \in Sessions |-> TRUE]

\* the database after its setup script has run
InitProcedure == procedure = TRUE

Init == InitPos /\ InitHist /\ InitRest /\ InitSupabase /\ InitProcedure

EditFrame == UNCHANGED <<billVars, storeVars, wordVars, adminVars>>


EditSelect ==
    \E t \in EditTables :
        selectTable(t) /\ Log1([op |-> "selectTable", item |-> ""]) /\ EditFrame

EditAdd ==
    \E m \in MenuItems :
        addItemToOrder(m) /\ Log1(LineOp("addItemToOrder", m.id)) /\ EditFrame

EditQuantity ==
    \E id \in ItemIds(currentOrder), q \in 0..MaxQty :
        updateItemQuantity(id, q) /\ Log1(LineOp("updateItemQuantity", id)) /\ EditFrame

EditRemove ==
    \E id \in ItemIds(currentOrder) :
        removeItem(id) /\ Log1(LineOp("removeItem", id)) /\ EditFrame

EditToggle ==
    \E id \in ItemIds(currentOrder) :
        toggleItemParcel(id) /\ Log2(LineOp("toggleItemParcel", id)) /\ EditFrame

\* the charge selector is shown for parcel lines only (OrderSummary)
EditParcelCharge ==
    \E id \in ItemIds(currentOrder), c \in ParcelChargeOptions :
        /\ LineOf(currentOrder, id).isParcel
        /\ updateItemParcelCharge(id, c)
        /\ Log1(LineOp("updateItemParcelCharge", id))
        /\ EditFrame

EditServiceCharge ==
    \E sc \in ServiceChargeOptions :
        /\ updateServiceCharge(sc)
        /\ Log1([op |-> "updateServiceCharge", item |-> ""])
        /\ EditFrame

NextEdit ==
    \/ EditSelect
    \/ EditAdd
    \/ EditQuantity
    \/ EditRemove
    \/ EditToggle
    \/ EditParcelCharge
    \/ EditServiceCharge

SpecEdit == Init /\ [][NextEdit]_vars

----------------------------------------------------------------------------
(* Properties of order editing *)

\* Math.round of a non-negative amount held in hundredths
RoundRupees(x) == ((x + 50) \div Percent) * Percent

LinesSubtotal(order) ==
    LET amt(l) == l.price * l.quantity IN SumSeq(Map(amt, order.items))

LinesParcelCharges(order) ==
    LET pc(l) == IF l.isParcel THEN l.parcelCharge ELSE 0 IN SumSeq(Map(pc, order.items))

\* C1: whenever the current order has at least one item, its stored total is
\* subtotal + parcelCharges + round(subtotal * serviceCharge / 100), subtotal
\* and parcelCharges being summed over its lines.
C1_StoredTotalMatchesLines ==
    (currentOrder # NoOrder /\ Len(currentOrder.items) >= 1) =>
        currentOrder.total =
            LinesSubtotal(currentOrder) * Percent
            + LinesParcelCharges(currentOrder) * Percent
            + RoundRupees(LinesSubtotal(currentOrder) * currentOrder.serviceCharge)

\* C10: a parcel line toggled off and then on again is a parcel line with the
\* default charge 5, whatever charge it carried before.
C10_ToggleTwiceRestoresDefault ==
    ( /\ lastOp.op = "toggleItemParcel"
      /\ prevOp.op = "toggleItemParcel"
      /\ prevOp.item = lastOp.item
      /\ prevOp.wasParcel ) =>
        /\ LineOf(currentOrder, lastOp.item).isParcel
        /\ LineOf(currentOrder, lastOp.item).parcelCharge = DefaultParcelCharge

\* a line that carried the custom charge 10 has been toggled off and on
C10_Witness ==
    /\ lastOp.op = "toggleItemParcel"
    /\ prevOp.op = "toggleItemParcel"
    /\ prevOp.item = lastOp.item
    /\ prevOp.wasParcel
    /\ prevOp.wasCharge = 10
    /\ LineOf(currentOrder, lastOp.item).isParcel
    /\ LineOf(currentOrder, lastOp.item).parcelCharge = 5

----------------------------------------------------------------------------
(* Specification of the bill number service: one session calling          *)
(* getNextBillNumber again and again while the remote store comes and     *)
(* goes and midnight passes.                                               *)

BillSessions == {1}

BillFrame == UNCHANGED <<posVars, histVars, storeVars, wordVars, adminVars>>

BillStart == \E s \in BillSessions : GetNextBillNumber(s) /\ BillFrame

BillNotConfigured == \E s \in BillSessions : NotConfigured(s) /\ BillFrame

BillRpcOk == \E s \in BillSessions : RpcOk(s) /\ BillFrame

BillRpcError == \E s \in BillSessions : RpcError(s) /\ BillFrame

BillSelect == \E s \in BillSessions, failed \in BOOLEAN : SelectRow(s, failed) /\ BillFrame

BillUpsertOk == \E s \in BillSessions : UpsertOk(s) /\ BillFrame

BillUpsertError == \E s \in BillSessions : UpsertError(s) /\ BillFrame

BillMidnight == DateAdvance /\ BillFrame

NextBill ==
    \/ BillStart
    \/ BillNotConfigured
    \/ BillRpcOk
    \/ BillRpcError
    \/ BillSelect
    \/ BillUpsertOk
    \/ BillUpsertError
    \/ BillMidnight

SpecBill == Init /\ [][NextBill]_vars

----------------------------------------------------------------------------
(* Properties of the bill number service *)

\* the bill numbers of a day, as they are printed
BillText == <<"001", "002", "003", "004", "005", "006">>

\* the calls among the first i of session s that were made on the date of call i
SameDay(s, i) == {j \in 1..i : issued[s][j].today = issued[s][i].today}

\* C2: the numbers one session is given on one date are "001", "002", ... in
\* the order of the calls, whichever store served each call.
C2_SequentialPerDate ==
    \A i \in 1..Len(issued[1]) :
        issued[1][i].bill = BillText[Cardinality(SameDay(1, i))]

\* C4: the first call made after the date has advanced is given "001".
C4_FirstOfDateIsOne ==
    \A i \in 1..Len(issued[1]) :
        (issued[1][i].today > 1 /\ SameDay(1, i) = {i}) => issued[1][i].bill = "001"

\* after two numbers on the first date, the first call of the next date got
\* "001" from the local fallback counter
C4_Witness ==
    \E i \in 1..Len(issued[1]) :
        /\ issued[1][i].today = 2
        /\ SameDay(1, i) = {i}
        /\ issued[1][i].via = "local"
        /\ issued[1][i].bill = "001"
        /\ i = 3
        /\ issued[1][2].bill = "002"

----------------------------------------------------------------------------
(* Specification of the persistence adapter: records are written, read,   *)
(* updated and deleted while the remote store comes and goes.              *)

StoreTables == {"menu_items"}
StoreIds   == {"a", NoId}
StoreNames == {"x", "y"}

StoreFrame == UNCHANGED <<tables, orders, currentOrder, completing, printing,
                          renders, printTimers, histVars, billVars, wordVars, adminVars>>

RECURSIVE SumOver(_, _)
SumOver(f, S) ==
    IF S = {} THEN 0
    ELSE LET x == CHOOSE x \in S : TRUE IN Len(f[x]) + SumOver(f, S \ {x})

\* the records held in both stores
Stored == SumOver(remoteStore, TableNames) + SumOver(localStore, TableNames)

StoreWrite ==
    \E t \in StoreTables, id \in StoreIds, n \in StoreNames, failed \in BOOLEAN :
        LET data == [id |-> id, name |-> n]
        IN  /\ Stored < MaxRecs
            /\ now <= MaxNow
            /\ StoreStep(StoreCall("safeWrite", t, id, data, failed),
                         safeWrite(remoteStore, localStore, t, data, failed, now))
            /\ now' = now + 1
            /\ StoreFrame

StoreRead ==
    \E t \in StoreTables, failed \in BOOLEAN :
        /\ StoreStep(StoreCall("safeRead", t, NoId, NoRec, failed),
                     safeRead(remoteStore, localStore, t, failed))
        /\ UNCHANGED now
        /\ StoreFrame

StoreUpdate ==
    \E t \in StoreTables, id \in {"a", "1"}, n \in StoreNames, failed \in BOOLEAN :
        /\ StoreStep(StoreCall("safeUpdate", t, id, [name |-> n], failed),
                     safeUpdate(remoteStore, localStore, t, id, [name |-> n], failed))
        /\ UNCHANGED now
        /\ StoreFrame

StoreDelete ==
    \E t \in StoreTables, id \in {"a", "1"}, failed \in BOOLEAN :
        /\ StoreStep(StoreCall("safeDelete", t, id, NoRec, failed),
                     safeDelete(remoteStore, localStore, t, id, failed))
        /\ UNCHANGED now
        /\ StoreFrame

NextStore ==
    \/ StoreWrite
    \/ StoreRead
    \/ StoreUpdate
    \/ StoreDelete

SpecStore == Init /\ [][NextStore]_vars

----------------------------------------------------------------------------
(* Properties of the persistence adapter *)

\* what a failed remote call must leave in the local list of its table
LocalAfter(call) ==
    LET withId == IF call.arg.id = NoId
                  THEN [call.arg EXCEPT !.id = ToString(now - 1)]
                  ELSE call.arg
    IN  CASE call.op = "safeWrite"  -> call.before \o <<withId>>
          [] call.op = "safeRead"   -> call.before
          [] call.op = "safeUpdate" ->
                [i \in 1..Len(call.before) |->
                    IF call.before[i].id = call.id
                    THEN [call.before[i] EXCEPT !.name = call.arg.name]
                    ELSE call.before[i]]
          [] call.op = "safeDelete" ->
                SelectSeq(call.before, LAMBDA r : r.id # call.id)

\* C8: no adapter call lets an error reach its caller; a call whose remote
\* request failed has acted on the local list of its table, and a failed
\* safeRead returns that list.
C8_RemoteFailureFallsBackToLocal ==
    storeResult.op # "none" =>
        /\ ~storeResult.threw
        /\ storeResult.failed =>
              /\ localStore[storeResult.table] = LocalAfter(storeResult)
              /\ storeResult.op = "safeRead" =>
                    storeResult.value = localStore[storeResult.table]

\* a read whose remote request failed returned a local list holding a record
C8_Witness ==
    /\ storeResult.op = "safeRead"
    /\ storeResult.failed
    /\ ~storeResult.threw
    /\ Len(storeResult.value) = 1
    /\ storeResult.value = localStore[storeResult.table]

----------------------------------------------------------------------------
(* Specification of the order life cycle at one table: orders are built,  *)
(* left and resumed, printed and completed, while the handlers that await *)
(* the remote store interleave with the user's next actions.               *)

OrderTables == {1}
OrderMenu   == {m \in MenuItems : m.id = "idly"}

OrderFrame == UNCHANGED <<billVars, storeVars, wordVars, adminVars>>

\* the remote counter answers, or the number comes from local storage
OrderBillResults ==
    {r \in BillResults(remoteCounter, ls[1], date) : r.via \in {"rpc", "local"}}

\* an operation on the current order, with what it found
OrderOp(name) ==
    [op |-> name,
     order |-> currentOrder.id,
     tableNumber |-> IF currentOrder = NoOrder THEN 0 ELSE currentOrder.tableNumber,
     wasLines |-> IF currentOrder = NoOrder THEN 0 ELSE Len(currentOrder.items)]

OrderSelect ==
    \E t \in OrderTables :
        selectTable(t) /\ Log1([op |-> "selectTable", tableNumber |-> t]) /\ OrderFrame

OrderAdd ==
    \E m \in OrderMenu :
        addItemToOrder(m) /\ Log1(OrderOp("addItemToOrder")) /\ OrderFrame

OrderQuantity ==
    \E id \in ItemIds(currentOrder), q \in 0..MaxQty :
        /\ updateItemQuantity(id, q)
        /\ Log1([OrderOp("updateItemQuantity") EXCEPT !.op =
                    IF q = 0 THEN "updateItemQuantity0" ELSE "updateItemQuantity"])
        /\ OrderFrame

OrderRemove ==
    \E id \in ItemIds(currentOrder) :
        removeItem(id) /\ Log1(OrderOp("removeItem")) /\ OrderFrame

\* the log of backToTables: was the order in the orders list before
BackOp ==
    [op |-> "backToTables",
     order |-> currentOrder.id,
     tableNumber |-> IF currentOrder = NoOrder THEN 0 ELSE currentOrder.tableNumber,
     wasLines |-> IF currentOrder = NoOrder THEN 0 ELSE Len(currentOrder.items),
     wasListed |-> \E i \in 1..Len(orders) : orders[i].id = currentOrder.id]

OrderBack == backToTables /\ Log1(BackOp) /\ OrderFrame

\* the Complete Order button is rendered for an order with items
OrderCompleteStart ==
    /\ currentOrder # NoOrder
    /\ Len(currentOrder.items) > 0
    /\ completeOrderStart
    /\ Log1(OrderOp("completeOrderStart"))
    /\ OrderFrame

OrderCompleteBill ==
    \E r \in OrderBillResults :
        /\ completeOrderBill(r)
        /\ Log1([op |-> "completeOrderBill"])
        /\ UNCHANGED <<storeVars, wordVars, adminVars>>

OrderCompleteFinish ==
    \E failed \in BOOLEAN :
        /\ completeOrderFinish(failed)
        /\ Log1([op |-> "completeOrder", order |-> completing.currentOrder.id,
                 tableNumber |-> completing.currentOrder.tableNumber,
                 wasListed |-> \E i \in 1..Len(completing.orders) :
                                  completing.orders[i].id = completing.currentOrder.id,
                 failed |-> failed])
        /\ UNCHANGED <<billVars, wordVars, adminVars>>

\* a handlePrint call that ran to its end, with the order it printed
PrintOp(type, cur, list) ==
    [op |-> "handlePrint", type |-> type, order |-> cur.id,
     printed |-> orderToPrint(cur, list).id,
     wasMarked |-> orderToPrint(cur, list).kotPrinted
                   /\ orderToPrint(cur, list).customerBillPrinted,
     call |-> PrintCalls + 1]

OrderPrintStart ==
    \E type \in {"kot", "customer", "both"} :
        /\ PrintButtonsShown
        /\ handlePrintStart(type)
        /\ Log1(IF printing' = Idle
                THEN PrintOp(type, currentOrder, orders)
                ELSE [op |-> "handlePrintStart"])
        /\ OrderFrame

OrderPrintBill ==
    \E r \in OrderBillResults :
        /\ handlePrintBill(r)
        /\ Log1(PrintOp(printing.type, printing.currentOrder, printing.orders))
        /\ UNCHANGED <<storeVars, wordVars, adminVars>>

OrderTimer == printTimerFires /\ Log1([op |-> "printTimer"]) /\ OrderFrame

NextOrder ==
    \/ OrderSelect
    \/ OrderAdd
    \/ OrderQuantity
    \/ OrderRemove
    \/ OrderBack
    \/ OrderCompleteStart
    \/ OrderCompleteBill
    \/ OrderCompleteFinish

SpecOrder == Init /\ [][NextOrder]_vars

\* the table is opened from the tables screen
PrintSelect ==
    /\ currentOrder = NoOrder
    /\ OrderSelect

\* the remote store is reachable: bill numbers come from its counter and the
\* completed order is written to it
RemoteCompleteBill ==
    /\ OrderCompleteBill
    /\ remoteCounter' # remoteCounter

RemoteCompleteFinish ==
    /\ OrderCompleteFinish
    /\ ~lastOp'.failed

RemotePrintBill ==
    /\ OrderPrintBill
    /\ remoteCounter' # remoteCounter

\* printing and completing the orders of one table
NextPrint ==
    \/ PrintSelect
    \/ OrderAdd
    \/ OrderCompleteStart
    \/ RemoteCompleteBill
    \/ RemoteCompleteFinish
    \/ OrderPrintStart
    \/ RemotePrintBill
    \/ OrderTimer

SpecPrint == Init /\ [][NextPrint]_vars

----------------------------------------------------------------------------
(* Properties of the order life cycle *)

\* the indices of the order with the given id in the orders list
InList(orderId) == {i \in 1..Len(orders) : orders[i].id = orderId}

\* C5: when updateItemQuantity(itemId, 0) or removeItem removes the only line
\* of the current order, the order is not in the orders list and its table is
\* available with no cached order.
C5_LastLineRemovedFreesTable ==
    ( /\ lastOp.op \in {"updateItemQuantity0", "removeItem"}
      /\ lastOp.wasLines = 1 ) =>
        /\ InList(lastOp.order) = {}
        /\ tables[lastOp.tableNumber].status = "available"
        /\ tables[lastOp.tableNumber].currentOrder = NoOrder

\* the only line of an order that had been saved in the list was removed
C5_Witness ==
    /\ lastOp.op = "updateItemQuantity0"
    /\ lastOp.wasLines = 1
    /\ prevOp = NoOp
    /\ currentOrder # NoOrder
    /\ currentOrder.id = lastOp.order
    /\ currentOrder.items = <<>>
    /\ tables[lastOp.tableNumber].status = "available"
    /\ \E i \in 1..Len(orders) : orders[i].status = "completed"

\* C7: when completeOrder, called on an order with items, has finished, with
\* the remote write succeeded or failed, the order is in the orders list
\* exactly once, completed and with a bill number, and the current order is
\* a fresh empty active order of the same table.
C7_CompleteOrderPostcondition ==
    lastOp.op = "completeOrder" =>
        /\ Cardinality(InList(lastOp.order)) = 1
        /\ \A i \in InList(lastOp.order) :
              /\ orders[i].status = "completed"
              /\ orders[i].billNumber # NoBill
              /\ Len(orders[i].items) > 0
        /\ currentOrder # NoOrder
        /\ currentOrder.id # lastOp.order
        /\ currentOrder.items = <<>>
        /\ currentOrder.status = "active"
        /\ currentOrder.billNumber = NoBill
        /\ currentOrder.tableNumber = lastOp.tableNumber

\* an order that was already in the list is completed while the remote write
\* fails: the record goes to the local list
C7_Witness ==
    /\ lastOp.op = "completeOrder"
    /\ lastOp.failed
    /\ lastOp.wasListed
    /\ Cardinality(InList(lastOp.order)) = 1
    /\ \E i \in 1..Len(localStore["completed_orders"]) :
          localStore["completed_orders"][i].id = ToString(lastOp.order)
    /\ currentOrder.items = <<>>

----------------------------------------------------------------------------
(* Properties of printing *)

\* the renders of one handlePrint call, made and scheduled, in their order
RendersOf(call) ==
    LET mine(r) == r.call = call IN SelectSeq(renders \o printTimers, mine)

\* handlePrint('both') call made two render calls for one order, KOT first,
\* the second of them still waiting for its timer
BothRendered(call, orderId) ==
    /\ Len(RendersOf(call)) = 2
    /\ RendersOf(call)[1].type = "kot"
    /\ RendersOf(call)[2].type = "customer"
    /\ RendersOf(call)[1].order = orderId
    /\ RendersOf(call)[2].order = orderId
    /\ renders # <<>>
    /\ renders[Len(renders)] = RendersOf(call)[1]
    /\ printTimers # <<>>
    /\ printTimers[Len(printTimers)] = RendersOf(call)[2]

\* both flags are set on every copy of the order the program holds
MarkedPrinted(orderId) ==
    /\ \A i \in InList(orderId) :
          orders[i].kotPrinted /\ orders[i].customerBillPrinted
    /\ (currentOrder # NoOrder /\ currentOrder.id = orderId) =>
          (currentOrder.kotPrinted /\ currentOrder.customerBillPrinted)
    /\ (InList(orderId) # {} \/ (currentOrder # NoOrder /\ currentOrder.id = orderId))

\* C6 as stated: handlePrint('both') makes exactly two render calls for one
\* order, KOT before customer bill, and has set both printed flags on the
\* printed order when it returns, before the second render has run.
C6_BothMarksPrintedOrder ==
    (lastOp.op = "handlePrint" /\ lastOp.type = "both") =>
        /\ BothRendered(lastOp.call, lastOp.printed)
        /\ MarkedPrinted(lastOp.printed)

\* C6, amended: the two render calls are made for whichever order is printed;
\* the flags are set when the printed order is the current order, and no
\* order is changed when a completed order is printed in its place.
C6_BothMarksCurrentOrder ==
    (lastOp.op = "handlePrint" /\ lastOp.type = "both") =>
        /\ BothRendered(lastOp.call, lastOp.printed)
        /\ lastOp.printed = lastOp.order => MarkedPrinted(lastOp.printed)
        /\ lastOp.printed # lastOp.order =>
              /\ currentOrder.id = lastOp.order
              /\ currentOrder.items = <<>>
              /\ InList(lastOp.printed) # {}
              /\ \A i \in InList(lastOp.printed) :
                    /\ orders[i].status = "completed"
                    /\ (orders[i].kotPrinted /\ orders[i].customerBillPrinted)
                           = lastOp.wasMarked

\* the current order, with items, was printed with 'both': its flags are set
\* and the customer bill is still waiting for the timer
C6_Witness ==
    /\ lastOp.op = "handlePrint"
    /\ lastOp.type = "both"
    /\ lastOp.printed = lastOp.order
    /\ currentOrder.id = lastOp.order
    /\ Len(currentOrder.items) > 0
    /\ currentOrder.kotPrinted
    /\ currentOrder.customerBillPrinted
    /\ Len(printTimers) = 1
    /\ printTimers[1].type = "customer"
    /\ printTimers[1].order = lastOp.order

----------------------------------------------------------------------------
(* Specification of completing edited orders: the lines of the order are  *)
(* edited, parcel flags and service charge included, and the order is     *)
(* completed.                                                              *)

CompleteAdd ==
    \E m \in OrderMenu :
        addItemToOrder(m) /\ Log1(LineOp("addItemToOrder", m.id)) /\ OrderFrame

NextComplete ==
    \/ EditSelect
    \/ CompleteAdd
    \/ EditToggle
    \/ EditParcelCharge
    \/ EditServiceCharge
    \/ OrderCompleteStart
    \/ RemoteCompleteBill
    \/ OrderCompleteFinish

SpecComplete == Init /\ [][NextComplete]_vars

\* C3: the subtotal, parcelCharges and total of the order completeOrder has
\* marked completed are the values computed from its lines and its service
\* charge.
C3_CompletedTotalsMatchLines ==
    lastOp.op = "completeOrder" =>
        \A i \in InList(lastOp.order) :
            /\ orders[i].subtotal = LinesSubtotal(orders[i]) * Percent
            /\ orders[i].parcelCharges = LinesParcelCharges(orders[i]) * Percent
            /\ orders[i].total =
                  LinesSubtotal(orders[i]) * Percent
                  + LinesParcelCharges(orders[i]) * Percent
                  + LinesSubtotal(orders[i]) * orders[i].serviceCharge

----------------------------------------------------------------------------
(* Specification of the amount in words: getAmountInWords is called with  *)
(* one whole amount after another.                                         *)

Ones ==
    <<"One", "Two", "Three", "Four", "Five", "Six", "Seven", "Eight", "Nine", "Ten",
      "Eleven", "Twelve", "Thirteen", "Fourteen", "Fifteen", "Sixteen", "Seventeen",
      "Eighteen", "Nineteen">>

Tens ==
    <<"", "Twenty", "Thirty", "Forty", "Fifty", "Sixty", "Seventy", "Eighty", "Ninety">>

\* a variant that reads the array one place too low
onesOffByOne(k) == IF k <= 1 THEN "" ELSE Ones[k - 1]

\* ones[k] and tens[k]: index 0 of either array, and index 1 of tens, is ''
ones(k) == IF k = 0 THEN "" ELSE Ones[k]
tens(k) == IF k = 0 THEN "" ELSE Tens[k]

getAmountInWords(n) ==
    IF n = 0 THEN "Zero Rupees only"
    ELSE IF n < 20 THEN ones(n) \o " Rupees only"
    ELSE IF n < 100
    THEN LET ten == n \div 10
             one == n % 10
         IN  tens(ten) \o (IF one > 0 THEN " " \o ones(one) ELSE "") \o " Rupees only"
    ELSE IF n < 1000
    THEN LET hundred == n \div 100
             remainder == n % 100
             ten == remainder \div 10
             one == remainder % 10
             result == ones(hundred) \o " Hundred" \o
                       (IF remainder > 0
                        THEN IF remainder < 20
                             THEN " " \o ones(remainder)
                             ELSE " " \o tens(ten) \o
                                  (IF one > 0 THEN " " \o ones(one) ELSE "")
                        ELSE "")
         IN  result \o " Rupees only"
    ELSE "Amount in words"

WordsCall ==
    \E n \in 0..MaxAmount :
        /\ amount' = n
        /\ words' = getAmountInWords(n)
        /\ UNCHANGED <<posVars, histVars, billVars, storeVars, adminVars>>

NextWords == WordsCall

SpecWords == Init /\ [][NextWords]_vars

\* the English name of n in 1..999, word by word
Digit == <<"One", "Two", "Three", "Four", "Five", "Six", "Seven", "Eight", "Nine">>
Teen  == <<"Ten", "Eleven", "Twelve", "Thirteen", "Fourteen", "Fifteen", "Sixteen",
           "Seventeen", "Eighteen", "Nineteen">>
Decade == <<"Twenty", "Thirty", "Forty", "Fifty", "Sixty", "Seventy", "Eighty", "Ninety">>

BelowHundred(n) ==
    IF n = 0 THEN <<>>
    ELSE IF n <= 9 THEN <<Digit[n]>>
    ELSE IF n <= 19 THEN <<Teen[n - 9]>>
    ELSE <<Decade[(n \div 10) - 1]>>
         \o (IF n % 10 = 0 THEN <<>> ELSE <<Digit[n % 10]>>)

EnglishName(n) ==
    IF n = 0 THEN <<"Zero">>
    ELSE (IF n >= 100 THEN <<Digit[n \div 100], "Hundred">> ELSE <<>>)
         \o BelowHundred(n % 100)

RECURSIVE Spaced(_)
Spaced(ws) == IF ws = <<>> THEN "" ELSE Head(ws) \o " " \o Spaced(Tail(ws))

\* C9: for n from 0 to 999 getAmountInWords(n) is the English name of n
\* followed by 'Rupees only', words separated by single spaces; for n of 1000
\* or more it is the placeholder 'Amount in words'.
C9_AmountInWords ==
    words # "" =>
        /\ amount <= 999 => words = Spaced(EnglishName(amount)) \o "Rupees only"
        /\ amount >= 1000 => words = "Amount in words"

C9_Witness ==
    /\ amount = 49
    /\ words = "Forty Nine Rupees only"
    /\ getAmountInWords(100) = "One Hundred Rupees only"
    /\ getAmountInWords(MaxAmount) = "Amount in words"

----------------------------------------------------------------------------
(* Properties of selectTable *)

\* the places in the orders list of the active orders of table n
ActiveInList(n) ==
    {i \in 1..Len(orders) : orders[i].tableNumber = n /\ orders[i].status = "active"}

\* the ids of the orders the program holds
KnownIds ==
    {orders[i].id : i \in 1..Len(orders)}
    \cup {tables[t].currentOrder.id : t \in TableNums}
    \cup {currentOrder.id}

\* what selectTable(n) resumes: an active order of n in the list, otherwise
\* the order cached on table n, otherwise a fresh empty active order of n
Resumed(n) ==
    IF ActiveInList(n) # {}
    THEN currentOrder' \in {orders[i] : i \in ActiveInList(n)}
    ELSE IF tables[n].currentOrder # NoOrder
    THEN currentOrder' = tables[n].currentOrder
    ELSE /\ currentOrder' # NoOrder
         /\ currentOrder'.id \notin KnownIds
         /\ currentOrder'.tableNumber = n
         /\ currentOrder'.items = <<>>
         /\ currentOrder'.status = "active"

\* selectTable(n) had neither an active order of n nor a cached one to resume
SelectedFresh(n) ==
    ActiveInList(n) = {} /\ tables[n].currentOrder = NoOrder

\* C11: selectTable(n) resumes the active order of table n from the list, else
\* the order cached on the table, else makes a fresh empty active order, and
\* in that last case table n ends occupied.
C11_SelectTableResumesOrCreates ==
    [][lastOp'.op = "selectTable" =>
          /\ Resumed(lastOp'.tableNumber)
          /\ SelectedFresh(lastOp'.tableNumber) =>
                tables'[lastOp'.tableNumber].status = "occupied"]_vars

----------------------------------------------------------------------------
(* Specification of printing a past order: the current order is the empty *)
(* order that follows a completion, the orders list holds orders of the   *)
(* tables in any order of saving, and the print buttons are used.         *)

\* an order with one line, as the list holds it: active with the bill number
\* a print gave it, or completed
ListedOrder(id, tableNumber, kind) ==
    LET line == CHOOSE m \in OrderMenu : TRUE
        order == WithTotals(NewOrder(id, tableNumber),
                            addItemToOrderItems(<<>>, line), 0)
    IN  [order EXCEPT !.status = IF kind = "completed" THEN "completed" ELSE "active",
                      !.billNumber = formatBillNumber(id)]

ListedOrders ==
    {ListedOrder(id, t, kind) : id \in 1..MaxList, t \in TableNums,
                                kind \in {"printed", "completed"}}

\* the orders lists: orders of distinct ids, in any order
ReprintLists ==
    UNION {{list \in [1..k -> ListedOrders] :
                \A i, j \in 1..k : i # j => list[i].id # list[j].id}
           : k \in 0..MaxList}

\* the tables while the empty order cur is the current order: the table of cur
\* is available, another table caches the active order the list holds for it
ReprintTables(list, cur) ==
    [t \in TableNums |->
        LET activeHere(o) == o.tableNumber = t /\ o.status = "active"
            k == FindIndex(activeHere, list)
        IN  IF t = cur.tableNumber \/ k = 0
            THEN [status |-> "available", currentOrder |-> NoOrder]
            ELSE [status |-> "occupied", currentOrder |-> list[k]]]

InitReprint ==
    /\ \E list \in ReprintLists, t \in TableNums :
          /\ orders = list
          /\ currentOrder = NewOrder(MaxList + 1, t)
          /\ tables = ReprintTables(list, currentOrder)
    /\ now = MaxList + 2
    /\ completing = Idle
    /\ printing = Idle
    /\ renders = <<>>
    /\ printTimers = <<>>
    /\ InitHist
    /\ InitRest
    /\ InitSupabase
    /\ InitProcedure

NextReprint ==
    \/ OrderPrintStart
    \/ OrderTimer

SpecReprint == InitReprint /\ [][NextReprint]_vars

\* the order of the given id in the list
Listed(orderId) == orders[CHOOSE i \in InList(orderId) : TRUE]

\* C12: handlePrint called while the current order has no items renders a
\* completed order of the table of the current order that has a bill number,
\* and none of those orders has a later timestamp.
C12_EmptyOrderPrintsLatestCompleted ==
    ( /\ lastOp.op = "handlePrint"
      /\ currentOrder.id = lastOp.order
      /\ currentOrder.items = <<>> ) =>
        LET rendered == RendersOf(lastOp.call)[1].order
        IN  /\ InList(rendered) # {}
            /\ Listed(rendered).tableNumber = currentOrder.tableNumber
            /\ Listed(rendered).status = "completed"
            /\ Listed(rendered).billNumber # NoBill
            /\ \A i \in 1..Len(orders) :
                  ( /\ orders[i].tableNumber = currentOrder.tableNumber
                    /\ orders[i].status = "completed"
                    /\ orders[i].billNumber # NoBill ) =>
                        orders[i].timestamp <= Listed(rendered).timestamp
            /\ \A r \in 1..Len(RendersOf(lastOp.call)) :
                  RendersOf(lastOp.call)[r].order = rendered

\* the later of two completed orders of table 1 was printed: it is second in
\* the list, behind a printed active order of table 1 with a later timestamp,
\* and a later completed order of table 2 follows
C12_Witness ==
    /\ lastOp.op = "handlePrint"
    /\ currentOrder.items = <<>>
    /\ currentOrder.tableNumber = 1
    /\ Len(orders) = 3
    /\ orders[1].id = 3 /\ orders[1].tableNumber = 1 /\ orders[1].status = "active"
    /\ orders[1].billNumber # NoBill
    /\ orders[2].id = 1 /\ orders[2].tableNumber = 1 /\ orders[2].status = "completed"
    /\ orders[3].id = 2 /\ orders[3].tableNumber = 2 /\ orders[3].status = "completed"
    /\ RendersOf(lastOp.call)[1].order = 1

----------------------------------------------------------------------------
(* Menu CRUD: addMenuItem.  The price of the form is a number of rupees   *)
(* and thousandths, the stored price a number of rupees and hundredths.   *)
(* The function is one step: its validation throws before the first await *)
(* and its only await, safeWrite, lets no error out.                       *)

\* 'Price too large! Maximum allowed: (rupee sign)99,999,999.99'
PriceLimitMessage == "Price too large! Maximum allowed: 99,999,999.99"
GenericAddMessage == "Failed to add menu item. Please try again."

\* String.prototype.toUpperCase().trim() on the category names of the model
toUpperCaseTrim(category) ==
    CASE category \in {"Tiffin", "TIFFIN", "tiffin "} -> "TIFFIN"
      [] category \in {"Drinks", "DRINKS"} -> "DRINKS"
      [] OTHER -> category

\* String.prototype.trim() on the category names of the model
trim(category) == IF category = "tiffin " THEN "tiffin" ELSE category

\* the category of the new item: that of the first menu item whose category
\* is the same but for case and outer blanks, or the trimmed category given
finalCategory(menu, category) ==
    LET similar(existing) == toUpperCaseTrim(existing.category) = toUpperCaseTrim(category)
        k == FindIndex(similar, menu)
    IN  IF k > 0 THEN menu[k].category ELSE trim(category)

\* Math.round(price * 100) / 100
roundPrice(price) ==
    LET hundredths == (price.mills + 5) \div 10
    IN  IF hundredths >= Percent
        THEN [rupees |-> price.rupees + 1, paise |-> hundredths - Percent]
        ELSE [rupees |-> price.rupees, paise |-> hundredths]

\* item.price >= 100000000
priceTooLarge(price) == price.rupees >= MaxPrice

\* the error message the catch block leaves after the validation has set its
\* own: errorMessage there is the state of the render that made the function,
\* shown, not the message just set
addMenuItemError(shown) ==
    IF shown = NoMessage THEN GenericAddMessage ELSE PriceLimitMessage

addMenuItem(item, failed) ==
    IF priceTooLarge(item.price)
    THEN /\ errorMessage' = addMenuItemError(errorMessage)
         /\ UNCHANGED <<menuItems, remoteStore, localStore, storeResult, now>>
    ELSE LET newItem == [id |-> ToString(now), name |-> item.name,
                         price |-> roundPrice(item.price),
                         category |-> finalCategory(menuItems, item.category)]
             supabaseItem == [id |-> newItem.id, name |-> newItem.name,
                              price |-> newItem.price, category |-> newItem.category,
                              restaurant_id |-> "default-restaurant"]
             w == safeWrite(remoteStore, localStore, "menu_items", supabaseItem,
                            failed, now)
         IN  /\ remoteStore' = w.remote
             /\ localStore' = w.local
             /\ menuItems' = Append(menuItems, newItem)
             /\ errorMessage' = NoMessage
             /\ now' = now + 1
             /\ UNCHANGED storeResult

----------------------------------------------------------------------------
(* Specification of the menu manager: items are added through the form,   *)
(* with prices on both sides of the limit, and error messages dismissed.  *)

MenuNames      == {"Dosa"}
MenuCategories == {"Tiffin", "tiffin ", "Drinks"}
MenuPrices     ==
    [rupees : {20, MaxPrice - 1, MaxPrice, MaxPrice + 1}, mills : {0, 995}]

MenuFrame ==
    UNCHANGED <<tables, orders, currentOrder, completing, printing, renders,
                printTimers, billVars, wordVars, clearing, resetting, supabase,
                procedure, content, midnight, completing2>>

\* handleAddOrUpdate: the form is submitted
MenuAdd ==
    \E name \in MenuNames, category \in MenuCategories, price \in MenuPrices,
       failed \in BOOLEAN :
        /\ Len(menuItems) < MaxRecs
        /\ addMenuItem([name |-> name, category |-> category, price |-> price], failed)
        /\ Log1([op |-> "addMenuItem", price |-> price, failed |-> failed,
                 shown |-> errorMessage,
                 threw |-> priceTooLarge(price)])
        /\ MenuFrame

\* the user closes the error message
MenuDismiss ==
    /\ errorMessage # NoMessage
    /\ errorMessage' = NoMessage
    /\ Log1([op |-> "dismiss"])
    /\ UNCHANGED <<menuItems, storeVars, now>>
    /\ MenuFrame

NextMenu ==
    \/ MenuAdd
    \/ MenuDismiss

SpecMenu == Init /\ [][NextMenu]_vars

\* C13: addMenuItem with a price of 100000000 or more writes nothing to the
\* persistence layer, leaves the menu unchanged, fails to its caller and
\* leaves the price-limit message of the validation as the error shown.
C13_PriceLimitAborts ==
    [][(lastOp'.op = "addMenuItem" /\ lastOp'.price.rupees >= MaxPrice) =>
          /\ remoteStore' = remoteStore
          /\ localStore' = localStore
          /\ menuItems' = menuItems
          /\ lastOp'.threw
          /\ errorMessage' = PriceLimitMessage]_vars

----------------------------------------------------------------------------
(* Specification of the administrative reset: one session, built with or  *)
(* without a supabase client, takes bill numbers and resets the counter   *)
(* of a date, the remote store answering or failing call by call, while   *)
(* midnight passes.                                                        *)

\* a build with the credentials of the remote store, or one without
InitEither ==
    /\ InitPos /\ InitHist /\ InitRest /\ InitProcedure
    /\ \E configured \in BOOLEAN : supabase = [s \in Sessions |-> configured]

ResetFrame ==
    UNCHANGED <<posVars, storeVars, wordVars, menuItems, errorMessage, clearing,
                supabase, procedure, content, midnight, completing2>>

\* the last reset completed, while no number has been handed out since
ResetDone(targetDate) == [op |-> "resetBillCounter", date |-> targetDate]

\* a number is handed out: was it the first for the date last reset?
NumberOp(s) ==
    [op |-> "getNextBillNumber", today |-> bn[s].today,
     bill |-> issued'[s][Len(issued'[s])].bill,
     reset |-> lastOp.op = "resetBillCounter" /\ lastOp.date = bn[s].today]

ResetGetStart ==
    \E s \in BillSessions :
        GetNextBillNumber(s) /\ UNCHANGED <<histVars, resetting>> /\ ResetFrame

ResetNotConfigured ==
    \E s \in BillSessions :
        /\ ~supabase[s]
        /\ NotConfigured(s) /\ Log1(NumberOp(s)) /\ UNCHANGED resetting /\ ResetFrame

ResetRpcOk ==
    \E s \in BillSessions :
        /\ supabase[s]
        /\ RpcOk(s) /\ Log1(NumberOp(s)) /\ UNCHANGED resetting /\ ResetFrame

ResetRpcError ==
    \E s \in BillSessions :
        /\ supabase[s]
        /\ RpcError(s) /\ UNCHANGED <<histVars, resetting>> /\ ResetFrame

ResetSelect ==
    \E s \in BillSessions, failed \in BOOLEAN :
        SelectRow(s, failed) /\ UNCHANGED <<histVars, resetting>> /\ ResetFrame

ResetUpsertOk ==
    \E s \in BillSessions :
        UpsertOk(s) /\ Log1(NumberOp(s)) /\ UNCHANGED resetting /\ ResetFrame

ResetUpsertError ==
    \E s \in BillSessions :
        UpsertError(s) /\ Log1(NumberOp(s)) /\ UNCHANGED resetting /\ ResetFrame

ResetMidnight == DateAdvance /\ UNCHANGED <<histVars, resetting>> /\ ResetFrame

\* resetBillCounter() or resetBillCounter(date) is called
ResetStart ==
    \E s \in BillSessions, targetDate \in 1..MaxDate :
        /\ resetBillCounter(s, targetDate)
        /\ IF supabase[s] THEN UNCHANGED histVars ELSE Log1(ResetDone(targetDate))
        /\ ResetFrame

ResetUpsert ==
    \E s \in BillSessions, failed \in BOOLEAN :
        /\ resetBillCounterUpsert(s, failed)
        /\ Log1(ResetDone(resetting[s].targetDate))
        /\ ResetFrame

NextReset ==
    \/ ResetGetStart
    \/ ResetNotConfigured
    \/ ResetRpcOk
    \/ ResetRpcError
    \/ ResetSelect
    \/ ResetUpsertOk
    \/ ResetUpsertError
    \/ ResetMidnight
    \/ ResetStart
    \/ ResetUpsert

SpecReset == InitEither /\ [][NextReset]_vars

\* C14: once resetBillCounter(date) has completed, the counter of that date
\* is 0 in the remote store and, for as long as that date is today, in
\* localStorage, and the next bill number handed out for that date is "001".
C14_ResetZeroesBothStores ==
    /\ lastOp.op = "resetBillCounter" =>
          /\ remoteCounter[lastOp.date] = 0
          /\ lastOp.date = date => localBillCounter(ls[1], lastOp.date) = 0
    /\ (lastOp.op = "getNextBillNumber" /\ lastOp.reset) => lastOp.bill = "001"

----------------------------------------------------------------------------
(* Properties of the table status and of the table grid *)

\* TableGrid.isTableOccupied(tableNumber)
isTableOccupied(list, tableNumber) ==
    \E i \in 1..Len(list) :
        list[i].tableNumber = tableNumber /\ list[i].status = "active"

\* TableGrid.getStatusText(table)
getStatusText(list, tbls, tableNumber) ==
    IF isTableOccupied(list, tableNumber) THEN "Occupied"
    ELSE IF tbls[tableNumber].status = "reserved" THEN "Reserved"
    ELSE "Available"

\* is the order an active order of the table that holds an item
ActiveWithItems(order, n) ==
    /\ order # NoOrder
    /\ order.tableNumber = n
    /\ order.status = "active"
    /\ Len(order.items) > 0

\* an active order with an item exists for the table, as the current order
\* or in the orders list
HasActiveOrder(n) ==
    \/ ActiveWithItems(currentOrder, n)
    \/ \E i \in 1..Len(orders) : ActiveWithItems(orders[i], n)

StatusMatchesOrders ==
    \A n \in TableNums : tables[n].status = "occupied" <=> HasActiveOrder(n)

GridMatchesStatus ==
    \A n \in TableNums :
        getStatusText(orders, tables, n) = "Occupied" <=> tables[n].status = "occupied"

\* C15: a table is 'occupied' exactly when an active order with an item
\* exists for it, as the current order or in the orders list, and the table
\* grid shows it as occupied in exactly those states.
C15_OccupiedIffActiveOrder == StatusMatchesOrders /\ GridMatchesStatus

----------------------------------------------------------------------------
(* Specification of two sessions taking bill numbers at the same time     *)
(* from a remote store that answers every request, in a database with or  *)
(* without the stored procedure.  A select reports an error only when the *)
(* date has no row yet.                                                    *)

InitConcurrent ==
    /\ InitPos /\ InitHist /\ InitRest /\ InitSupabase
    /\ procedure \in BOOLEAN

ConcStart == \E s \in Sessions : GetNextBillNumber(s) /\ BillFrame

ConcRpcOk == \E s \in Sessions : procedure /\ RpcOk(s) /\ BillFrame

ConcRpcError == \E s \in Sessions : ~procedure /\ RpcError(s) /\ BillFrame

ConcSelect ==
    \E s \in Sessions, failed \in BOOLEAN :
        /\ failed => remoteCounter[date] = 0
        /\ SelectRow(s, failed)
        /\ BillFrame

ConcUpsertOk == \E s \in Sessions : UpsertOk(s) /\ BillFrame

NextConcurrent ==
    \/ ConcStart
    \/ ConcRpcOk
    \/ ConcRpcError
    \/ ConcSelect
    \/ ConcUpsertOk

SpecConcurrent == InitConcurrent /\ [][NextConcurrent]_vars

\* C16: two sessions that take bill numbers for the same date from a remote
\* store that answers both are never given the same bill number, with the
\* stored procedure and with the table-scan fallback.
C16_ConcurrentNumbersDiffer ==
    \A i \in 1..Len(issued[1]), j \in 1..Len(issued[2]) :
        issued[1][i].today = issued[2][j].today =>
            issued[1][i].bill # issued[2][j].bill

----------------------------------------------------------------------------
(* clearAllOrders.  The function reads currentOrder as the render that    *)
(* made it saw it: closure below.  With a supabase client it awaits the   *)
(* delete of every row of completed_orders, whose error it only logs.     *)

\* Storage.removeItem(key): the entry of that key, if any, is gone
localStorageRemoveItem(store, key) == [k \in DOMAIN store \ {key} |-> store[k]]

\* `bill_counter_${today}`
billCounterKey(today) == "bill_counter_" \o ToString(today)

\* clearAllOrders from its local part on: the orders list is emptied, the
\* current order of the closure replaced by a fresh one of its table (the
\* table status effect follows), the localStorage key of the day removed
clearAllOrdersLocal(closure, deleted, today) ==
    /\ remoteStore' = IF deleted THEN [remoteStore EXCEPT !["completed_orders"] = <<>>]
                      ELSE remoteStore
    /\ orders' = <<>>
    /\ IF closure # NoOrder
       THEN LET freshOrder == NewOrder(now, closure.tableNumber)
            IN  /\ currentOrder' = freshOrder
                /\ tables' = TableStatusEffect(tables, freshOrder)
                /\ now' = now + 1
       ELSE UNCHANGED <<currentOrder, tables, now>>
    /\ ls' = [ls EXCEPT ![1] = localStorageRemoveItem(@, billCounterKey(today))]
    /\ clearing' = Idle
    /\ UNCHANGED <<completing, printing, renders, printTimers>>

\* clearAllOrders is called: the delete is sent, or, without a client,
\* the local part runs at once
clearAllOrdersStart(closure, today) ==
    IF supabase[1]
    THEN /\ clearing' = [pc |-> "delete", currentOrder |-> closure]
         /\ UNCHANGED <<posVars, remoteStore, ls>>
    ELSE clearAllOrdersLocal(closure, FALSE, today)

\* the delete has answered
clearAllOrdersFinish(failed) ==
    /\ clearing.pc = "delete"
    /\ clearAllOrdersLocal(clearing.currentOrder, ~failed, date)

----------------------------------------------------------------------------
(* Specification of clearing: one user takes orders at two tables and     *)
(* clears all orders from the reports screen; the midnight timer, set by  *)
(* the first render, clears them as well.                                  *)

ClearFrame ==
    UNCHANGED <<remoteCounter, bn, issued, localStore, storeResult, wordVars,
                menuItems, errorMessage, resetting, supabase, procedure, content,
                completing2>>

ClearDone(from, today) == [op |-> "clearAllOrders", from |-> from, date |-> today]

\* the log of a step of clearAllOrders: written when the call has completed
ClearLog(from, today) ==
    IF clearing' = Idle THEN Log1(ClearDone(from, today)) ELSE UNCHANGED histVars

\* the Clear All Orders button, confirmed
ClearButton ==
    /\ clearing = Idle
    /\ now <= MaxNow
    /\ clearAllOrdersStart(currentOrder, date)
    /\ ClearLog("button", date)
    /\ UNCHANGED <<date, midnight>>
    /\ ClearFrame

\* a pending midnight timer fires on a day before lastDate: the
\* clearAllOrders of the first render is called, for which currentOrder is
\* null, and the next clear is scheduled
ClearTimerFires(lastDate) ==
    \E id \in midnight.pending :
        /\ clearing = Idle
        /\ date < lastDate
        /\ date' = date + 1
        /\ clearAllOrdersStart(NoOrder, date + 1)
        /\ midnight' = timerCallback(midnight, id)
        /\ ClearLog("timer", date + 1)
        /\ ClearFrame

ClearTimer == ClearTimerFires(MaxDate)

ClearFinish ==
    \E failed \in BOOLEAN :
        /\ clearAllOrdersFinish(failed)
        /\ ClearLog("await", date)
        /\ UNCHANGED <<date, midnight>>
        /\ ClearFrame

ClearSelect ==
    \E t \in TableNums :
        selectTable(t) /\ Log1([op |-> "selectTable", tableNumber |-> t]) /\ OrderFrame

NextClear ==
    \/ ClearSelect
    \/ OrderAdd
    \/ OrderRemove
    \/ OrderBack
    \/ ClearButton
    \/ ClearTimer
    \/ ClearFinish

SpecClear == InitEither /\ [][NextClear]_vars

\* would selectTable(n) resume an order that holds items
WouldResume(n) ==
    \/ ActiveInList(n) # {}
    \/ tables[n].currentOrder # NoOrder /\ Len(tables[n].currentOrder.items) > 0

\* C18: when clearAllOrders has completed, from the button or from the
\* midnight timer, the orders list is empty, the current order, if any, has
\* no items, and no table is occupied or holds an order selectTable resumes.
C18_ClearLeavesNoOrder ==
    lastOp.op = "clearAllOrders" =>
        /\ orders = <<>>
        /\ currentOrder # NoOrder => Len(currentOrder.items) = 0
        /\ \A n \in TableNums :
              /\ tables[n].status # "occupied"
              /\ ~WouldResume(n)

----------------------------------------------------------------------------
(* Specification of clearing and billing: one session takes bill numbers, *)
(* from the remote store or from localStorage, and clears all orders from *)
(* the reports screen or by the midnight timer.                            *)

ClearBillFrame == UNCHANGED <<posVars, storeVars, wordVars, adminVars>>

\* getNextBillNumber is called: had clearAllOrders just completed, on the
\* date of the call?
CalledOp ==
    [op |-> "called",
     cleared |-> lastOp.op = "clearAllOrders" /\ lastOp.date = date]

\* the number of that call is handed out
ClearedOp(s) ==
    [op |-> "getNextBillNumber", today |-> bn[s].today,
     bill |-> issued'[s][Len(issued'[s])].bill,
     via |-> issued'[s][Len(issued'[s])].via,
     cleared |-> lastOp.op = "called" /\ lastOp.cleared]

ClearBillStart ==
    \E s \in BillSessions :
        GetNextBillNumber(s) /\ Log1(CalledOp) /\ ClearBillFrame

ClearBillNotConfigured ==
    \E s \in BillSessions :
        ~supabase[s] /\ NotConfigured(s) /\ Log1(ClearedOp(s)) /\ ClearBillFrame

ClearBillRpcOk ==
    \E s \in BillSessions :
        supabase[s] /\ RpcOk(s) /\ Log1(ClearedOp(s)) /\ ClearBillFrame

ClearBillRpcError ==
    \E s \in BillSessions :
        supabase[s] /\ RpcError(s) /\ UNCHANGED histVars /\ ClearBillFrame

ClearBillSelect ==
    \E s \in BillSessions, failed \in BOOLEAN :
        SelectRow(s, failed) /\ UNCHANGED histVars /\ ClearBillFrame

ClearBillUpsertOk ==
    \E s \in BillSessions :
        UpsertOk(s) /\ Log1(ClearedOp(s)) /\ ClearBillFrame

ClearBillUpsertError ==
    \E s \in BillSessions :
        UpsertError(s) /\ Log1(ClearedOp(s)) /\ ClearBillFrame

NextClearBill ==
    \/ ClearBillStart
    \/ ClearBillNotConfigured
    \/ ClearBillRpcOk
    \/ ClearBillRpcError
    \/ ClearBillSelect
    \/ ClearBillUpsertOk
    \/ ClearBillUpsertError
    \/ ClearButton
    \/ ClearTimer
    \/ ClearFinish

SpecClearBill == InitEither /\ [][NextClearBill]_vars

\* C17: the first bill number handed out after clearAllOrders has completed
\* on the same date, when localStorage serves it, is "001".
C17_ClearResetsBillCounter ==
    (lastOp.op = "getNextBillNumber" /\ lastOp.cleared /\ lastOp.via = "local") =>
        lastOp.bill = "001"

----------------------------------------------------------------------------
(* Properties of addItemToOrder and of toggleItemParcel *)

\* no two lines of the order name the same item
DistinctLines(order) ==
    order # NoOrder =>
        \A i, j \in 1..Len(order.items) :
            order.items[i].id = order.items[j].id => i = j

NoDuplicateLines ==
    /\ DistinctLines(currentOrder)
    /\ \A i \in 1..Len(orders) : DistinctLines(orders[i])
    /\ \A n \in TableNums : DistinctLines(tables[n].currentOrder)

\* the lines after the step are those before it, but for the line of itemId,
\* which is one more in quantity or, if new, appended with the defaults
AddedOne(before, after, itemId) ==
    /\ \A i \in 1..Len(before) : before[i].id # itemId => after[i] = before[i]
    /\ IF HasItem(before, itemId)
       THEN /\ Len(after) = Len(before)
            /\ \A i \in 1..Len(before) :
                  before[i].id = itemId =>
                      after[i] = [before[i] EXCEPT !.quantity = @ + 1]
       ELSE /\ Len(after) = Len(before) + 1
            /\ after[Len(after)].id = itemId
            /\ after[Len(after)].quantity = 1
            /\ after[Len(after)].isParcel = FALSE
            /\ after[Len(after)].parcelCharge = 0

\* C19: addItemToOrder adds 1 to the quantity of the line of that item and
\* leaves its isParcel and parcelCharge alone, or, when the order has no
\* such line, appends one with quantity 1, isParcel false and parcelCharge
\* 0; no order ever holds two lines of the same item.
C19_AddIncrementsOrAppends ==
    [][/\ NoDuplicateLines'
       /\ lastOp'.op = "addItemToOrder" =>
             AddedOne(currentOrder.items, currentOrder'.items, lastOp'.item)]_vars

\* a second unit is added to a parcel line whose charge had been set to 10,
\* in an order that holds another line
C19_Witness ==
    /\ lastOp.op = "addItemToOrder"
    /\ lastOp.wasParcel
    /\ lastOp.wasCharge = 10
    /\ LineOf(currentOrder, lastOp.item).quantity = 2
    /\ LineOf(currentOrder, lastOp.item).isParcel
    /\ LineOf(currentOrder, lastOp.item).parcelCharge = 10
    /\ Len(currentOrder.items) = 2


\* the step changed, in the current order, the isParcel and parcelCharge of
\* the line of itemId and nothing else, and left the orders list alone
ToggledLineOnly(itemId) ==
    /\ currentOrder' = [currentOrder EXCEPT !.items = currentOrder'.items]
    /\ Len(currentOrder'.items) = Len(currentOrder.items)
    /\ \A i \in 1..Len(currentOrder.items) :
          IF currentOrder.items[i].id = itemId
          THEN currentOrder'.items[i] =
                  [currentOrder.items[i] EXCEPT
                      !.isParcel = currentOrder'.items[i].isParcel,
                      !.parcelCharge = currentOrder'.items[i].parcelCharge]
          ELSE currentOrder'.items[i] = currentOrder.items[i]
    /\ orders' = orders

\* the tables after the step: each keeps its status, the table of the order
\* holds the order as it is now, the others are as they were
TablesFollowOrder ==
    \A n \in TableNums :
        /\ tables'[n].status = tables[n].status
        /\ IF n = currentOrder.tableNumber
           THEN tables'[n].currentOrder = currentOrder'
           ELSE tables'[n] = tables[n]

\* C20 as stated: toggleItemParcel changes only the isParcel and parcelCharge
\* of the named line; the stored subtotal, parcelCharges and total, every
\* other line, the service charge, the orders list and the tables are
\* unchanged.
C20_ToggleChangesOnlyLine ==
    [][lastOp'.op = "toggleItemParcel" =>
          /\ ToggledLineOnly(lastOp'.item)
          /\ tables' = tables]_vars

\* C20 amended: as above, except that the table of the order, whose status
\* stays as it was, holds the order as changed; the other tables are
\* unchanged.
C20_ToggleChangesLineAndCache ==
    [][lastOp'.op = "toggleItemParcel" =>
          /\ ToggledLineOnly(lastOp'.item)
          /\ TablesFollowOrder]_vars

\* one line of an order of two has been made a parcel line, while the other,
\* a parcel line with its charge set to 10, and the stale totals stayed
C20_Witness ==
    /\ lastOp.op = "toggleItemParcel"
    /\ ~lastOp.wasParcel
    /\ Len(currentOrder.items) = 2
    /\ LineOf(currentOrder, lastOp.item).isParcel
    /\ \E i \in 1..2 :
          /\ currentOrder.items[i].id # lastOp.item
          /\ currentOrder.items[i].isParcel
          /\ currentOrder.items[i].parcelCharge = 10
    /\ tables[currentOrder.tableNumber].currentOrder = currentOrder
    /\ currentOrder.parcelCharges # LinesParcelCharges(currentOrder)

----------------------------------------------------------------------------
(* Properties of backToTables *)

\* the places of the order of that id in the orders list after the step
InListAfter(orderId) == {i \in 1..Len(orders') : orders'[i].id = orderId}

\* C21: backToTables leaves the current order unset; an order with items is
\* afterwards exactly once in the orders list, as it was when the user left
\* it, and its table is occupied; an order without items is not in the list
\* and its table is available with no cached order.
C21_BackToTablesSavesOrDiscards ==
    [][lastOp'.op = "backToTables" =>
          /\ currentOrder' = NoOrder
          /\ currentOrder # NoOrder =>
                IF Len(currentOrder.items) > 0
                THEN /\ Cardinality(InListAfter(currentOrder.id)) = 1
                     /\ \A i \in InListAfter(currentOrder.id) : orders'[i] = currentOrder
                     /\ tables'[currentOrder.tableNumber].status = "occupied"
                ELSE /\ InListAfter(currentOrder.id) = {}
                     /\ tables'[currentOrder.tableNumber].status = "available"
                     /\ tables'[currentOrder.tableNumber].currentOrder = NoOrder]_vars

\* an order that was in the list was resumed, given a second unit and left:
\* the list holds it once, with quantity 2
C21_Witness ==
    /\ lastOp.op = "backToTables"
    /\ lastOp.wasListed
    /\ lastOp.wasLines = 1
    /\ currentOrder = NoOrder
    /\ Cardinality(InList(lastOp.order)) = 1
    /\ \A i \in InList(lastOp.order) : orders[i].items[1].quantity = 2
    /\ tables[lastOp.tableNumber].status = "occupied"

----------------------------------------------------------------------------
(* generatePrintContent.  The content is held as the values its template  *)
(* interpolates.  A line of a persisted order has no parcelCharge field;  *)
(* amounts that may carry a fraction are in hundredths until rounded.     *)

\* Math.round of a non-negative amount given in hundredths
MathRound(hundredths) == (hundredths + 50) \div Percent

\* String.prototype.toUpperCase() on the item names of the model
toUpperCase(name) ==
    CASE name = "Idly"  -> "IDLY"
      [] name = "Vada"  -> "VADA"
      [] name = "Tea"   -> "TEA"
      [] name = "Water" -> "WATER"
      [] OTHER -> name

\* item.parcelCharge ?? (item.isParcel ? 5 : 0)
itemParcelCharge(item) ==
    IF "parcelCharge" \in DOMAIN item THEN item.parcelCharge
    ELSE IF item.isParcel THEN DefaultParcelCharge ELSE 0

\* order.items.reduce((sum, item) => sum + item.quantity, 0)
totalItems(items) ==
    LET quantity(item) == item.quantity
    IN  SumSeq(Map(quantity, items))

generatePrintContentCustomer(order) ==
    LET lineAmount(item) == item.price * item.quantity
        lineParcel(item) == IF item.isParcel THEN itemParcelCharge(item) ELSE 0
        subtotal == SumSeq(Map(lineAmount, order.items))
        \* (subtotal * order.serviceCharge) / 100, in hundredths
        serviceChargeAmount == subtotal * order.serviceCharge
        parcelCharges == SumSeq(Map(lineParcel, order.items))
        \* in hundredths
        total == subtotal * Percent + serviceChargeAmount + parcelCharges * Percent
        line(i) == [sl |-> i, name |-> order.items[i].name,
                    quantity |-> order.items[i].quantity,
                    rate |-> order.items[i].price,
                    amount |-> lineAmount(order.items[i])]
    IN  [type        |-> "customer",
         billNo      |-> IF order.billNumber = NoBill THEN "N/A" ELSE order.billNumber,
         tableNumber |-> order.tableNumber,
         lines       |-> [i \in 1..Len(order.items) |-> line(i)],
         net         |-> MathRound(subtotal * Percent),
         servicePercent |-> order.serviceCharge,
         serviceLine |-> IF order.serviceCharge > 0
                         THEN <<MathRound(serviceChargeAmount)>> ELSE <<>>,
         packingLine |-> IF parcelCharges > 0
                         THEN <<MathRound(parcelCharges * Percent)>> ELSE <<>>,
         gross       |-> MathRound(total),
         words       |-> getAmountInWords(MathRound(total)),
         totalItems  |-> totalItems(order.items)]

generatePrintContentKot(order) ==
    LET line(item) == [quantity |-> item.quantity, name |-> toUpperCase(item.name),
                       parcel |-> item.isParcel]
    IN  [type        |-> "kot",
         billNo      |-> IF order.billNumber = NoBill THEN "N/A" ELSE order.billNumber,
         tableNumber |-> order.tableNumber,
         lines       |-> Map(line, order.items),
         totalItems  |-> totalItems(order.items)]

generatePrintContent(order, type) ==
    IF type = "kot" THEN generatePrintContentKot(order)
    ELSE generatePrintContentCustomer(order)

----------------------------------------------------------------------------
(* Specification of the printed content: an order of one or two lines of  *)
(* the menu below, with any quantity, parcel flag, parcel charge and      *)
(* service charge the screens offer, is printed as a ticket or a bill.    *)

\* menu items as the menu manager accepts them: any price from 0
ReceiptItems == { [id |-> "water", name |-> "Water", price |-> 0],
                  [id |-> "tea",   name |-> "Tea",   price |-> 4],
                  [id |-> "idly",  name |-> "Idly",  price |-> 20] }

ReceiptServiceCharges == {0, 5, 10, 15}

\* the lines one menu item can make
ReceiptLines ==
    { [id |-> m.id, name |-> m.name, price |-> m.price, quantity |-> q,
       isParcel |-> p, parcelCharge |-> c] :
        m \in ReceiptItems, q \in 1..MaxQty, p \in BOOLEAN,
        c \in {0} \cup ParcelChargeOptions }

ReceiptItemLists ==
    { <<l>> : l \in ReceiptLines }
    \cup { <<l1, l2>> : l1 \in {x \in ReceiptLines : x.id = "tea"},
                        l2 \in {x \in ReceiptLines : x.id = "idly" /\ x.quantity = 1} }

InitReceipt ==
    /\ \E items \in ReceiptItemLists, serviceCharge \in ReceiptServiceCharges :
          /\ currentOrder = WithTotals(NewOrder(1, 1), items, serviceCharge)
          /\ tables = TableStatusEffect(
                         [n \in TableNums |-> [status |-> "available",
                                               currentOrder |-> NoOrder]],
                         currentOrder)
    /\ orders = <<>>
    /\ now = 2
    /\ completing = Idle
    /\ printing = Idle
    /\ renders = <<>>
    /\ printTimers = <<>>
    /\ InitHist
    /\ InitRest
    /\ InitSupabase
    /\ InitProcedure

\* performPrint: the content of the current order is generated
ReceiptPrint ==
    \E type \in {"kot", "customer"} :
        /\ content' = generatePrintContent(currentOrder, type)
        /\ Log1([op |-> "generatePrintContent", type |-> type])
        /\ UNCHANGED <<posVars, billVars, storeVars, wordVars, menuItems,
                       errorMessage, clearing, resetting, supabase, procedure,
                       midnight, completing2>>

NextReceipt == ReceiptPrint

SpecReceipt == InitReceipt /\ [][NextReceipt]_vars

\* C22: in the customer bill the service charge line appears only with an
\* amount greater than 0, and the packing charges line only with parcel
\* charges greater than 0.
C22_ChargeLinesOnlyIfPositive ==
    content.type = "customer" =>
        /\ content.serviceLine # <<>> => content.serviceLine[1] > 0
        /\ content.packingLine # <<>> => content.packingLine[1] > 0

----------------------------------------------------------------------------
(* Specification of the midnight clear: the hook is mounted once, by the  *)
(* root component; one user takes orders while it is mounted; the pending *)
(* midnight timers fire, night after night; the hook is unmounted. What   *)
(* a timer callback then sets on the state of the unmounted hook is seen  *)
(* by nobody; its delete and its localStorage removal are as before.      *)

MaxMidnights == 3

MidnightSelect == midnight.mounted /\ ClearSelect

MidnightAdd == midnight.mounted /\ OrderAdd

MidnightBack == midnight.mounted /\ OrderBack

MidnightTimer == ClearTimerFires(MaxMidnights)

MidnightUnmount ==
    /\ midnight.mounted
    /\ midnight' = useEffectMidnightCleanup(midnight)
    /\ Log1([op |-> "unmount"])
    /\ UNCHANGED <<posVars, billVars, storeVars, wordVars, menuItems, errorMessage,
                   clearing, resetting, supabase, procedure, content, completing2>>

NextMidnight ==
    \/ MidnightSelect
    \/ MidnightAdd
    \/ MidnightBack
    \/ MidnightTimer
    \/ ClearFinish
    \/ MidnightUnmount

SpecMidnight == InitEither /\ [][NextMidnight]_vars

\* a timer has fired in this step
TimerFired == midnight.pending \ midnight'.pending # {} /\ midnight'.mounted = midnight.mounted

\* clearAllOrders was called in this step: its delete is in flight, or,
\* without a client, its local part has run
ClearCalled == clearing' # Idle \/ (lastOp'.op = "clearAllOrders" /\ orders' = <<>>)

\* C23: while the hook is mounted, exactly one midnight timer is pending at
\* all times, and every firing of the timer calls clearAllOrders once and
\* schedules exactly one new timer
C23_OneTimerWhileMounted ==
    /\ [](midnight.mounted => Cardinality(midnight.pending) = 1)
    /\ [][(midnight.mounted /\ TimerFired) =>
             /\ ClearCalled
             /\ midnight'.invoked = midnight.invoked + 1
             /\ Cardinality(midnight.pending \ midnight'.pending) = 1
             /\ Cardinality(midnight'.pending \ midnight.pending) = 1]_vars

\* the hook is mounted, its timer has fired twice, and the third is pending
C23_Witness ==
    /\ midnight.mounted
    /\ midnight.invoked = 2
    /\ midnight.pending = {3}
    /\ lastOp.op = "clearAllOrders"
    /\ lastOp.from = "timer"

\* C30: after the hook has unmounted, no midnight timer is pending and no
\* timer calls clearAllOrders again
C30_NoTimerAfterUnmount ==
    ~midnight.mounted =>
        /\ midnight.pending = {}
        /\ midnight.invoked = midnight.invokedAtUnmount

\* the second half of C30 alone
C30_NoClearAfterUnmount ==
    ~midnight.mounted => midnight.invoked = midnight.invokedAtUnmount

\* unmounted before the first midnight: nothing is left
C30_CleanUnmount ==
    (~midnight.mounted /\ midnight.invokedAtUnmount = 0) => midnight.pending = {}

----------------------------------------------------------------------------
(* Properties of the bill number of a printed order *)

\* completeOrder, called for an order to which handlePrint had given a bill
\* number, has its number in this step
NumberedOrderCompletes ==
    /\ lastOp'.op = "completeOrderBill"
    /\ completing.currentOrder.billNumber # NoBill

\* C24: a bill number never changes once assigned: when handlePrint has
\* given the current order a bill number and printed it, the order
\* completeOrder records carries that number, and completeOrder consumes no
\* further number
C24_PrintedNumberKept ==
    [][NumberedOrderCompletes =>
          /\ completing'.currentOrder.billNumber = completing.currentOrder.billNumber
          /\ remoteCounter' = remoteCounter
          /\ ls' = ls]_vars

----------------------------------------------------------------------------
(* Specification of overlapping completions: one user takes the orders of *)
(* a table and completes them; while completeOrder awaits its bill number *)
(* or its write, the user goes on adding items and presses Complete Order *)
(* again: the button is neither hidden nor disabled meanwhile.            *)

\* completeOrder is called while a call is in flight
completeOrderAgainStart ==
    /\ completing # Idle
    /\ completing2 = Idle
    /\ currentOrder # NoOrder
    /\ now <= MaxNow
    /\ completing2' = [pc |-> "bill", currentOrder |-> currentOrder,
                       orders |-> orders, tables |-> tables]
    /\ UNCHANGED posVars

\* the bill number of the second call arrives
completeOrderAgainBill(r) ==
    /\ completing2.pc = "bill"
    /\ BillResolves(r)
    /\ completing2' = [completing2 EXCEPT !.pc = "write",
                                          !.currentOrder.status = "completed",
                                          !.currentOrder.billNumber = formatBillNumber(r.data)]
    /\ UNCHANGED posVars

\* safeWrite of the second call returns
completeOrderAgainFinish(failed) ==
    /\ completing2.pc = "write"
    /\ LET completedOrder == completing2.currentOrder
           w == safeWrite(remoteStore, localStore, "completed_orders",
                          supabaseOrder(completedOrder), failed, now)
           freshOrder == NewOrder(now, completedOrder.tableNumber)
       IN  /\ remoteStore' = w.remote
           /\ localStore' = w.local
           /\ Commit(freshOrder,
                     completeOrderOrders(completing2.orders, completedOrder),
                     [completing2.tables EXCEPT ![completedOrder.tableNumber] =
                         [status |-> "occupied", currentOrder |-> freshOrder]])
    /\ now' = now + 1
    /\ completing2' = Idle
    /\ UNCHANGED <<completing, printing, renders, printTimers, storeResult>>

AgainFrame ==
    UNCHANGED <<menuItems, errorMessage, clearing, resetting, supabase, procedure,
                content, midnight>>

OverlapAdd ==
    \E m \in MenuItems :
        addItemToOrder(m) /\ Log1(OrderOp("addItemToOrder")) /\ OrderFrame

OverlapAgainStart ==
    /\ currentOrder # NoOrder
    /\ Len(currentOrder.items) > 0
    /\ completeOrderAgainStart
    /\ Log1(OrderOp("completeOrderStart"))
    /\ UNCHANGED <<billVars, storeVars, wordVars>>
    /\ AgainFrame

OverlapAgainBill ==
    \E r \in OrderBillResults :
        /\ completeOrderAgainBill(r)
        /\ remoteCounter' # remoteCounter
        /\ Log1([op |-> "completeOrderBill"])
        /\ UNCHANGED <<storeVars, wordVars>>
        /\ AgainFrame

OverlapAgainFinish ==
    \E failed \in BOOLEAN :
        /\ completeOrderAgainFinish(failed)
        /\ Log1([op |-> "completeOrder", order |-> completing2.currentOrder.id,
                 tableNumber |-> completing2.currentOrder.tableNumber,
                 wasListed |-> \E i \in 1..Len(completing2.orders) :
                                  completing2.orders[i].id = completing2.currentOrder.id,
                 failed |-> failed])
        /\ UNCHANGED <<billVars, wordVars>>
        /\ AgainFrame

NextOverlap ==
    \/ OrderSelect
    \/ OverlapAdd
    \/ OrderCompleteStart
    \/ RemoteCompleteBill
    \/ OrderCompleteFinish
    \/ OverlapAgainStart
    \/ OverlapAgainBill
    \/ OverlapAgainFinish

SpecOverlap == Init /\ [][NextOverlap]_vars

\* the lines of an order as a set of item ids with their quantities
Quantities(order) ==
    {<<order.items[i].id, order.items[i].quantity>> : i \in 1..Len(order.items)}

\* line is a line of order, with at least its quantity
KeptIn(line, order) ==
    \E kept \in Quantities(order) : kept[1] = line[1] /\ kept[2] >= line[2]

\* C25: no edit is lost across the asynchronous part of completeOrder: what
\* the current order holds when completeOrder finishes for it is afterwards
\* in the completed order of the list or in the current order
C25_NoEditLost ==
    [][(lastOp'.op = "completeOrder" /\ currentOrder.id = lastOp'.order) =>
          \A line \in Quantities(currentOrder) :
              \/ KeptIn(line, currentOrder')
              \/ \E i \in 1..Len(orders') :
                    orders'[i].id = currentOrder.id /\ KeptIn(line, orders'[i])]_vars

\* the records of completed_orders, remote and local
CompletedRecords ==
    {remoteStore["completed_orders"][i] : i \in 1..Len(remoteStore["completed_orders"])}
    \cup {localStore["completed_orders"][i] : i \in 1..Len(localStore["completed_orders"])}

\* C25, its second half: a second completeOrder started before the first
\* finishes does not complete the same order under two bill numbers
C25_OneBillPerOrder ==
    \A a, b \in CompletedRecords : a.id = b.id => a.bill_number = b.bill_number

----------------------------------------------------------------------------
(* Specification of reprinting: the orders of a table are edited, parcel  *)
(* flags, parcel charges and service charge included, and completed; the  *)
(* records of completed_orders are reprinted from the reports screen.     *)

\* reprintOrder(order, type): the order made of a record for printing; the
\* record completeOrder writes has no parcel_charges
reprintOrder(order) ==
    [id |-> order.id,
     tableNumber |-> order.table_number,
     items |-> order.items,
     serviceCharge |-> order.service_charge,
     parcelCharges |-> 0,
     subtotal |-> order.subtotal,
     total |-> order.total,
     timestamp |-> order.timestamp,
     status |-> order.status,
     kotPrinted |-> order.kot_printed,
     customerBillPrinted |-> order.customer_bill_printed,
     billNumber |-> IF order.bill_number = NoBill THEN "N/A" ELSE order.bill_number]

\* a bill or a ticket is reprinted from a record of the recent orders
RecordReprint ==
    \E record \in CompletedRecords, type \in {"kot", "customer"} :
        /\ content' = generatePrintContent(reprintOrder(record), type)
        /\ Log1([op |-> "reprintOrder", type |-> type, order |-> record.id])
        /\ UNCHANGED <<posVars, billVars, storeVars, wordVars, menuItems,
                       errorMessage, clearing, resetting, supabase, procedure,
                       midnight, completing2>>

NextRecord ==
    \/ EditSelect
    \/ CompleteAdd
    \/ EditToggle
    \/ EditParcelCharge
    \/ EditServiceCharge
    \/ OrderCompleteStart
    \/ RemoteCompleteBill
    \/ OrderCompleteFinish
    \/ RecordReprint

SpecRecord == Init /\ [][NextRecord]_vars

\* the completed orders of the list whose record was reprinted last
ReprintedInMemory ==
    {i \in 1..Len(orders) :
        orders[i].status = "completed" /\ ToString(orders[i].id) = lastOp.order}

\* C26: the bill reprinted from the persisted record of a completed order
\* shows the packing charges and the gross amount of the bill printed from
\* the order in memory
C26_ReprintSameCharges ==
    (lastOp.op = "reprintOrder" /\ lastOp.type = "customer") =>
        \A i \in ReprintedInMemory :
            /\ content.packingLine =
                  generatePrintContent(orders[i], "customer").packingLine
            /\ content.gross = generatePrintContent(orders[i], "customer").gross

\* C26 for orders whose parcel lines all carry the default charge
C26_ReprintSameChargesDefault ==
    (lastOp.op = "reprintOrder" /\ lastOp.type = "customer") =>
        \A i \in ReprintedInMemory :
            (\A k \in 1..Len(orders[i].items) :
                orders[i].items[k].isParcel =>
                    orders[i].items[k].parcelCharge = DefaultParcelCharge)
            => /\ content.packingLine =
                     generatePrintContent(orders[i], "customer").packingLine
               /\ content.gross = generatePrintContent(orders[i], "customer").gross

----------------------------------------------------------------------------
(* Specification of a working day: one user opens tables, edits, saves,   *)
(* prints and completes their orders, goes back to the tables and clears  *)
(* all orders, in any order the screens allow.                            *)

\* the remote counter answers
DayBillResults == {r \in OrderBillResults : r.via = "rpc"}

DayLog(name) == Log1([op |-> name])

DaySelect ==
    \E t \in OrderTables : selectTable(t) /\ DayLog("selectTable") /\ OrderFrame

\* an item is added to the empty order
DayAdd ==
    \E m \in OrderMenu :
        /\ currentOrder # NoOrder
        /\ Len(currentOrder.items) = 0
        /\ addItemToOrder(m)
        /\ DayLog("addItemToOrder")
        /\ OrderFrame

DayRemove ==
    \E id \in ItemIds(currentOrder) :
        removeItem(id) /\ DayLog("removeItem") /\ OrderFrame

DaySave == saveOrder /\ DayLog("saveOrder") /\ OrderFrame

DayBack == backToTables /\ DayLog("backToTables") /\ OrderFrame

\* one document is printed
DayPrintStart ==
    /\ PrintButtonsShown
    /\ handlePrintStart("customer")
    /\ DayLog("handlePrintStart")
    /\ OrderFrame

DayPrintBill ==
    \E r \in DayBillResults :
        /\ handlePrintBill(r)
        /\ DayLog("handlePrint")
        /\ UNCHANGED <<storeVars, wordVars, adminVars>>

\* the Complete Order button is rendered for an order with items
DayCompleteStart ==
    /\ currentOrder # NoOrder
    /\ Len(currentOrder.items) > 0
    /\ completeOrderStart
    /\ DayLog("completeOrderStart")
    /\ OrderFrame

DayCompleteBill ==
    \E r \in DayBillResults :
        /\ completeOrderBill(r)
        /\ DayLog("completeOrderBill")
        /\ UNCHANGED <<storeVars, wordVars, adminVars>>

DayCompleteFinish ==
    /\ completeOrderFinish(FALSE)
    /\ DayLog("completeOrder")
    /\ UNCHANGED <<billVars, wordVars, adminVars>>

\* the Clear All Orders button, confirmed
DayClearButton ==
    /\ clearing = Idle
    /\ now <= MaxNow
    /\ clearAllOrdersStart(currentOrder, date)
    /\ DayLog("clearAllOrdersStart")
    /\ UNCHANGED <<date, midnight>>
    /\ ClearFrame

\* the delete of clearAllOrders has answered
DayClearFinish ==
    /\ clearAllOrdersFinish(FALSE)
    /\ DayLog("clearAllOrders")
    /\ UNCHANGED <<date, midnight>>
    /\ ClearFrame

NextDay ==
    \/ DaySelect
    \/ DayAdd
    \/ DayRemove
    \/ DaySave
    \/ DayBack
    \/ DayPrintStart
    \/ DayPrintBill
    \/ DayCompleteStart
    \/ DayCompleteBill
    \/ DayCompleteFinish
    \/ DayClearButton
    \/ DayClearFinish

SpecDay == Init /\ [][NextDay]_vars

\* the active orders of table n in the orders list
ActiveOf(n) ==
    {i \in 1..Len(orders) : orders[i].tableNumber = n /\ orders[i].status = "active"}

\* C27: the orders list holds at most one active order for a table and no
\* two entries with the same id
C27_OneActivePerTable ==
    /\ \A n \in TableNums : Cardinality(ActiveOf(n)) <= 1
    /\ \A i, j \in 1..Len(orders) : orders[i].id = orders[j].id => i = j

\* a completed order of a table and, after it, the active order that
\* followed it at that table are both in the list, and a bill was printed
C27_Witness ==
    /\ Len(orders) = 2
    /\ orders[1].status = "completed"
    /\ orders[2].status = "active"
    /\ orders[1].tableNumber = orders[2].tableNumber
    /\ orders[1].id # orders[2].id
    /\ renders # <<>>
    /\ lastOp.op = "backToTables"

----------------------------------------------------------------------------
(* Specification of the hook: the operations usePOSData returns, called   *)
(* in any sequence, each under the conditions of its own code only. The   *)
(* screens call completeOrder and handlePrint from buttons they render    *)
(* under further conditions, which SpecDay adds.                          *)

\* completeOrder(): `if (!currentOrder) return`
HookCompleteStart == completeOrderStart /\ DayLog("completeOrderStart") /\ OrderFrame

\* handlePrint(type): `if (!currentOrder) return`
HookPrintStart ==
    \E type \in {"kot", "customer"} :
        handlePrintStart(type) /\ DayLog("handlePrintStart") /\ OrderFrame

NextHook ==
    \/ DaySelect
    \/ DayAdd
    \/ DayRemove
    \/ DaySave
    \/ DayBack
    \/ HookPrintStart
    \/ DayPrintBill
    \/ HookCompleteStart
    \/ DayCompleteBill
    \/ DayCompleteFinish

SpecHook == Init /\ [][NextHook]_vars

\* C28: every order in the orders list has at least one item
C28_NoEmptyOrderListed ==
    \A i \in 1..Len(orders) : Len(orders[i].items) > 0

\* C28 for completeOrder alone: no completed order of the list is empty
C28_NoEmptyOrderCompleted ==
    \A i \in 1..Len(orders) : orders[i].status = "completed" => Len(orders[i].items) > 0

\* C28, the bill number: completeOrder called for an empty order consumes
\* no bill number
C28_NoNumberForEmptyOrder ==
    [][(lastOp'.op = "completeOrderBill" /\ Len(completing.currentOrder.items) = 0)
          => remoteCounter' = remoteCounter /\ ls' = ls]_vars

----------------------------------------------------------------------------
(* Properties of the persistence adapter across calls *)

\* the elements of a list of records
Records(list) == {list[i] : i \in 1..Len(list)}

\* a safeWrite has returned its record and the next call is op on its table
AfterWrite(op) ==
    /\ storeResult.op = "safeWrite"
    /\ storeResult'.op = op
    /\ storeResult'.table = storeResult.table

\* C29: a record accepted by safeWrite is contained in the result of a later
\* safeRead of its table, and a later safeUpdate of its id changes it,
\* whichever of the calls found the remote store available; stated for the
\* call that follows the write, so that no delete lies between them
C29_WrittenRecordIsRead ==
    [][/\ AfterWrite("safeRead") => storeResult.value \in Records(storeResult'.value)
       /\ (AfterWrite("safeUpdate") /\ storeResult'.id = storeResult.value.id) =>
             /\ storeResult'.value # NoRec
             /\ storeResult'.value.name = storeResult'.arg.name]_vars

\* C29 when both calls found the remote store in the same condition
C29_WrittenRecordIsReadSameStore ==
    [][/\ (AfterWrite("safeRead") /\ storeResult'.failed = storeResult.failed) =>
             storeResult.value \in Records(storeResult'.value)
       /\ (AfterWrite("safeUpdate") /\ storeResult'.failed = storeResult.failed
           /\ storeResult'.id = storeResult.value.id) =>
             /\ storeResult'.value # NoRec
             /\ storeResult'.value.name = storeResult'.arg.name]_vars

\* C29, its second half alone
C29_WrittenRecordIsUpdated ==
    [][(AfterWrite("safeUpdate") /\ storeResult'.id = storeResult.value.id) =>
          /\ storeResult'.value # NoRec
          /\ storeResult'.value.name = storeResult'.arg.name]_vars

====
